---- MODULE Spec2Model ----
(***************************************************************************)
(* libsdcxx: sequence matcher over bigram multisets (Sorensen-Dice).       *)
(*                                                                         *)
(* The model follows src/src/libsdcxx/sequence_matcher.hxx and             *)
(* src/src/libsdcxx/bigrams.hxx.  Indices are 0-based as in the source;    *)
(* TLA+ sequences are 1-based, so cell (i, j) is m_mx[i + 1][j + 1].       *)
(*                                                                         *)
(* The iterator computes with IEEE-754 binary64 values (double).  They are *)
(* modelled bit-exactly: a finite non-zero double is sign, exponent e and  *)
(* a 53-bit significand M (2^52 <= M < 2^53), value M * 2^(e - 52), the    *)
(* significand kept as the pair hi * 2^27 + lo so that all arithmetic      *)
(* stays within 32-bit integers.  Division rounds to nearest, ties to      *)
(* even.                                                                   *)
(***************************************************************************)
EXTENDS Integers, Sequences, FiniteSets, TLC

(***************************************************************************)
(* Bounds of the model                                                     *)
(***************************************************************************)
MaxTokens == 3

(***************************************************************************)
(* IEEE-754 binary64                                                       *)
(***************************************************************************)
LoBase == 134217728      \* 2^27, weight of the high part of a significand
HiOne == 33554432        \* 2^25, high part of the significand 2^52

BigGeq(a, b) == a[1] > b[1] \/ (a[1] = b[1] /\ a[2] >= b[2])

BigSub(a, b) ==
    IF a[2] >= b[2] THEN <<a[1] - b[1], a[2] - b[2]>>
                    ELSE <<a[1] - b[1] - 1, a[2] + LoBase - b[2]>>

BigAdd(a, b) ==
    LET l == a[2] + b[2]
    IN  <<a[1] + b[1] + (l \div LoBase), l % LoBase>>

BigDbl(a) == BigAdd(a, a)

BigHalf(a) == <<a[1] \div 2, (a[1] % 2) * (LoBase \div 2) + (a[2] \div 2)>>

BigOdd(a) == a[2] % 2 = 1

\* 2^k, 0 <= k <= 27
Pow2(k) ==
    <<1, 2, 4, 8, 16, 32, 64, 128, 256, 512, 1024, 2048, 4096, 8192, 16384,
      32768, 65536, 131072, 262144, 524288, 1048576, 2097152, 4194304,
      8388608, 16777216, 33554432, 67108864, 134217728>>[k + 1]

\* 2^k as a significand pair, 0 <= k <= 53
BigPow2(k) == IF k >= 27 THEN <<Pow2(k - 27), 0>> ELSE <<0, Pow2(k)>>

\* position of the top bit of n, 1 <= n < 2^26
Log2(n) == CHOOSE e \in 0..25 : Pow2(e) <= n /\ n < Pow2(e + 1)

NaN == [cls |-> "nan", neg |-> FALSE, e |-> 0, hi |-> 0, lo |-> 0]
Inf(neg) == [cls |-> "inf", neg |-> neg, e |-> 0, hi |-> 0, lo |-> 0]
Zero(neg) == [cls |-> "zero", neg |-> neg, e |-> 0, hi |-> 0, lo |-> 0]
Fin(neg, e, m) == [cls |-> "fin", neg |-> neg, e |-> e, hi |-> m[1], lo |-> m[2]]

Mant(x) == <<x.hi, x.lo>>

\* shift a non-zero significand left until its top bit is 2^52
RECURSIVE Normalise(_, _, _)
Normalise(neg, e, m) ==
    IF m[1] >= HiOne THEN Fin(neg, e, m) ELSE Normalise(neg, e - 1, BigDbl(m))

\* static_cast<double>(n) of an integer |n| < 2^26: exact
FromInt(n) ==
    LET a == IF n < 0 THEN 0 - n ELSE n
        e == Log2(a)
    IN  IF n = 0 THEN Zero(FALSE)
        ELSE Fin(n < 0, e, <<a * Pow2(25 - e), 0>>)

One == FromInt(1)

\* binary long division: r is the running remainder (already doubled), d the
\* divisor, q the quotient bits so far; the first bit produced is 1, so the
\* quotient is complete when it has reached 2^52 (53 bits)
RECURSIVE DivBits(_, _, _)
DivBits(r, d, q) ==
    IF q[1] >= HiOne THEN <<q, r>>
    ELSE LET ge == BigGeq(r, d)
             r1 == IF ge THEN BigSub(r, d) ELSE r
             q1 == BigAdd(BigDbl(q), <<0, IF ge THEN 1 ELSE 0>>)
         IN  DivBits(BigDbl(r1), d, q1)

\* quotient of two finite non-zero doubles, rounded to nearest, ties to even
DivFin(x, y) ==
    LET neg == x.neg # y.neg
        big == BigGeq(Mant(x), Mant(y))
        e == IF big THEN x.e - y.e ELSE x.e - y.e - 1
        r0 == IF big THEN Mant(x) ELSE BigDbl(Mant(x))
        qr == DivBits(r0, Mant(y), <<0, 0>>)
        q == qr[1]
        r == qr[2]
        up == (BigGeq(r, Mant(y)) /\ r # Mant(y)) \/ (r = Mant(y) /\ BigOdd(q))
        q1 == IF up THEN BigAdd(q, <<0, 1>>) ELSE q
    IN  IF q1[1] >= 2 * HiOne THEN Fin(neg, e + 1, BigHalf(q1)) ELSE Fin(neg, e, q1)

\* x / y
Div(x, y) ==
    LET neg == x.neg # y.neg
    IN  CASE x.cls = "nan" \/ y.cls = "nan" -> NaN
          [] x.cls = "inf" -> IF y.cls = "inf" THEN NaN ELSE Inf(neg)
          [] y.cls = "inf" -> Zero(neg)
          [] y.cls = "zero" -> IF x.cls = "zero" THEN NaN ELSE Inf(neg)
          [] x.cls = "zero" -> Zero(neg)
          [] OTHER -> DivFin(x, y)

\* x - 1.0, for the operands the model produces: |x| >= 1/2 or x special
MinusOne(x) ==
    CASE x.cls = "nan" -> NaN
      [] x.cls = "inf" -> x
      [] x.cls = "zero" -> FromInt(-1)
      [] x.cls = "fin" /\ ~x.neg /\ x.e >= 0 /\ x.e <= 52 ->
            \* x >= 1: the difference is a multiple of ulp(x), exact
            LET m == BigSub(Mant(x), BigPow2(52 - x.e))
            IN  IF m = <<0, 0>> THEN Zero(FALSE) ELSE Normalise(FALSE, x.e, m)
      [] x.cls = "fin" /\ ~x.neg /\ x.e = -1 ->
            \* 1/2 <= x < 1: -(1 - x), exact
            Normalise(TRUE, -1, BigSub(BigPow2(53), Mant(x)))
      [] x.cls = "fin" /\ x.neg /\ x.e >= 0 /\ x.e <= 52 ->
            \* x <= -1: -(|x| + 1), one bit may be rounded away
            LET s == BigAdd(Mant(x), BigPow2(52 - x.e))
                h == BigHalf(s)
                up == BigOdd(s) /\ BigOdd(h)
                h1 == IF up THEN BigAdd(h, <<0, 1>>) ELSE h
            IN  IF s[1] < 2 * HiOne THEN Fin(TRUE, x.e, s)
                ELSE IF h1[1] >= 2 * HiOne THEN Fin(TRUE, x.e + 2, BigHalf(h1))
                ELSE Fin(TRUE, x.e + 1, h1)

\* |x| < |y| for non-NaN doubles
MagLess(x, y) ==
    CASE y.cls = "zero" -> FALSE
      [] x.cls = "zero" -> TRUE
      [] x.cls = "inf" -> FALSE
      [] y.cls = "inf" -> TRUE
      [] OTHER -> x.e < y.e \/
                  (x.e = y.e /\ ~BigGeq(Mant(x), Mant(y)))

\* y < x, the comparison with its operands exchanged
Less_Swapped(x, y) ==
    CASE x.cls = "nan" \/ y.cls = "nan" -> FALSE
      [] x.cls = "zero" /\ y.cls = "zero" -> FALSE
      [] y.neg /\ ~x.neg -> TRUE
      [] ~y.neg /\ x.neg -> FALSE
      [] y.neg /\ x.neg -> MagLess(x, y)
      [] OTHER -> MagLess(y, x)

\* x < y
Less(x, y) ==
    CASE x.cls = "nan" \/ y.cls = "nan" -> FALSE
      [] x.cls = "zero" /\ y.cls = "zero" -> FALSE
      [] x.neg /\ ~y.neg -> TRUE
      [] ~x.neg /\ y.neg -> FALSE
      [] x.neg /\ y.neg -> MagLess(y, x)
      [] OTHER -> MagLess(x, y)

(***************************************************************************)
(* Bigram multiset, counted representation (bigrams.hxx)                   *)
(*                                                                         *)
(* A character is its code (an integer), a string a sequence of them, a    *)
(* bigram a pair <<c1, c2>>, a list entry <<bigram, count>>.               *)
(***************************************************************************)
cmp(bc1, bc2) ==
    LET b1 == bc1[1]
        b2 == bc2[1]
        diff == b1[1] - b2[1]
    IN  IF diff = 0 THEN b1[2] - b2[2] ELSE diff

\* operator < of std::tuple<char_t, char_t>, the order std::sort uses
BigramLess(b1, b2) == b1[1] < b2[1] \/ (b1[1] = b2[1] /\ b1[2] < b2[2])

RECURSIVE SortInsert(_, _)
SortInsert(vec, b) ==
    IF vec = <<>> THEN <<b>>
    ELSE IF BigramLess(b, Head(vec)) THEN <<b>> \o vec
    ELSE <<Head(vec)>> \o SortInsert(Tail(vec), b)

RECURSIVE Sort(_)
Sort(vec) == IF vec = <<>> THEN <<>> ELSE SortInsert(Sort(Tail(vec)), Head(vec))

\* the loop "unify same bigrams" of the constructor
RECURSIVE Unify(_, _)
Unify(impl, vec) ==
    IF vec = <<>> THEN impl
    ELSE LET last == impl[Len(impl)]
         IN  IF last[1] = Head(vec)
             THEN Unify([impl EXCEPT ![Len(impl)] = <<last[1], last[2] + 1>>], Tail(vec))
             ELSE Unify(Append(impl, <<Head(vec), 1>>), Tail(vec))

\* basic_bigrams()
EmptyBigrams == [m_impl |-> <<>>, m_size |-> 0]

\* basic_bigrams(const string_t & str)
Bigrams(str) ==
    IF Len(str) < 2 THEN EmptyBigrams
    ELSE LET bigram_vec == Sort([i \in 1..(Len(str) - 1) |-> <<str[i], str[i + 1]>>])
         IN  [m_impl |-> Unify(<<<<Head(bigram_vec), 1>>>>, Tail(bigram_vec)),
              m_size |-> Len(bigram_vec)]

\* the merge that leaves the count of a bigram already present as it is
RECURSIVE Merge_CountKept(_, _, _, _)
Merge_CountKept(done, mine, oth, size) ==
    IF oth = <<>> THEN [m_impl |-> done \o mine, m_size |-> size]
    ELSE IF mine = <<>>
         THEN Merge_CountKept(Append(done, Head(oth)), mine, Tail(oth), size + Head(oth)[2])
    ELSE LET bg_cmp == cmp(Head(mine), Head(oth))
         IN  IF bg_cmp < 0
             THEN Merge_CountKept(Append(done, Head(mine)), Tail(mine), oth, size)
             ELSE IF bg_cmp = 0
             THEN Merge_CountKept(Append(done, Head(mine)),
                                  Tail(mine), Tail(oth), size + Head(oth)[2])
             ELSE Merge_CountKept(Append(done, Head(oth)), mine, Tail(oth),
                                  size + Head(oth)[2])

\* the merge that inserts the other's entry in front of an equal one
RECURSIVE Merge_SecondEntry(_, _, _, _)
Merge_SecondEntry(done, mine, oth, size) ==
    IF oth = <<>> THEN [m_impl |-> done \o mine, m_size |-> size]
    ELSE IF mine = <<>>
         THEN Merge_SecondEntry(Append(done, Head(oth)), mine, Tail(oth),
                                size + Head(oth)[2])
    ELSE IF cmp(Head(mine), Head(oth)) < 0
         THEN Merge_SecondEntry(Append(done, Head(mine)), Tail(mine), oth, size)
         ELSE Merge_SecondEntry(Append(done, Head(oth)), mine, Tail(oth),
                                size + Head(oth)[2])

\* operator +=, the loops: done is the part of m_impl behind my_bigram, mine
\* the part from my_bigram on, oth the part of other.m_impl from
\* other_bigram on, size is m_size
RECURSIVE Merge(_, _, _, _)
Merge(done, mine, oth, size) ==
    IF oth = <<>> THEN [m_impl |-> done \o mine, m_size |-> size]
    ELSE IF mine = <<>>
         THEN Merge(Append(done, Head(oth)), mine, Tail(oth), size + Head(oth)[2])
    ELSE LET bg_cmp == cmp(Head(mine), Head(oth))
         IN  IF bg_cmp < 0
             THEN Merge(Append(done, Head(mine)), Tail(mine), oth, size)
             ELSE IF bg_cmp = 0
             THEN Merge(Append(done, <<Head(mine)[1], Head(mine)[2] + Head(oth)[2]>>),
                        Tail(mine), Tail(oth), size + Head(oth)[2])
             ELSE Merge(Append(done, Head(oth)), mine, Tail(oth), size + Head(oth)[2])

\* operator += that puts the other list behind its own
PlusEq_Appended(self, other) ==
    [m_impl |-> self.m_impl \o other.m_impl, m_size |-> self.m_size + other.m_size]

\* operator +=
PlusEq(self, other) ==
    IF self.m_size = 0 THEN other
    ELSE Merge(<<>>, self.m_impl, other.m_impl, self.m_size)

\* operator +: unite(*this, other) = unite(other) += *this
Plus(self, other) == PlusEq(other, self)

\* unite that returns unite(args...) without adding arg1
Unite3_Rest(arg1, arg2, arg3) == PlusEq(arg3, arg2)

\* unite(arg1, arg2, arg3) = (unite(arg3) += arg2) += arg1
Unite3(arg1, arg2, arg3) == PlusEq(PlusEq(arg3, arg2), arg1)

\* the loop of operator += when other is *this: my_bigram and other_bigram
\* walk the same list, so cmp is 0 at every entry; the count is added to
\* itself and m_size then takes the count as it now stands
RECURSIVE SelfMerge(_, _, _)
SelfMerge(done, mine, size) ==
    IF mine = <<>> THEN [m_impl |-> done, m_size |-> size]
    ELSE SelfMerge(Append(done, <<Head(mine)[1], Head(mine)[2] + Head(mine)[2]>>),
                   Tail(mine), size + (Head(mine)[2] + Head(mine)[2]))

\* operator += with other = *this
PlusEqSelf(self) ==
    IF self.m_size = 0 THEN self
    ELSE SelfMerge(<<>>, self.m_impl, self.m_size)

Min(a, b) == IF a < b THEN a ELSE b

\* the loop of intersect_size counting one for a bigram both lists hold
RECURSIVE IntersectLoop_Distinct(_, _, _)
IntersectLoop_Distinct(bg1, bg2, size) ==
    IF bg1 = <<>> \/ bg2 = <<>> THEN size
    ELSE IF cmp(Head(bg1), Head(bg2)) < 0
         THEN IntersectLoop_Distinct(Tail(bg1), bg2, size)
    ELSE IF cmp(Head(bg1), Head(bg2)) = 0
         THEN IntersectLoop_Distinct(Tail(bg1), Tail(bg2), size + 1)
    ELSE IntersectLoop_Distinct(bg1, Tail(bg2), size)

\* the loop of intersect_size: bg1, bg2 are the lists from the iterators on
RECURSIVE IntersectLoop(_, _, _)
IntersectLoop(bg1, bg2, size) ==
    IF bg1 = <<>> \/ bg2 = <<>> THEN size
    ELSE LET bg_cmp == cmp(Head(bg1), Head(bg2))
         IN  IF bg_cmp < 0 THEN IntersectLoop(Tail(bg1), bg2, size)
             ELSE IF bg_cmp = 0
             THEN IntersectLoop(Tail(bg1), Tail(bg2),
                                size + Min(Head(bg1)[2], Head(bg2)[2]))
             ELSE IntersectLoop(bg1, Tail(bg2), size)

intersect_size(bigrams1, bigrams2) ==
    IntersectLoop(bigrams1.m_impl, bigrams2.m_impl, 0)


(***************************************************************************)
(* Bigram multisets (bigram_multiset.hxx).  std::multiset keeps its       *)
(* elements in order, an element equal to others going behind them: a     *)
(* sorted sequence.  std::unordered_multiset promises no order: it is its *)
(* elements with their numbers, a function from bigram to count.          *)
(***************************************************************************)
\* m_impl.emplace(c1, c2) on a container that keeps one element per value
RECURSIVE OrderedEmplace_Unique(_, _)
OrderedEmplace_Unique(impl, b) ==
    IF impl = <<>> THEN <<b>>
    ELSE IF BigramLess(b, Head(impl)) THEN <<b>> \o impl
    ELSE IF b = Head(impl) THEN impl
    ELSE <<Head(impl)>> \o OrderedEmplace_Unique(Tail(impl), b)

\* m_impl.emplace(c1, c2), std::multiset
RECURSIVE OrderedEmplace(_, _)
OrderedEmplace(impl, b) ==
    IF impl = <<>> THEN <<b>>
    ELSE IF BigramLess(b, Head(impl)) THEN <<b>> \o impl
    ELSE <<Head(impl)>> \o OrderedEmplace(Tail(impl), b)

\* m_impl.emplace(c1, c2), std::unordered_multiset
UnorderedEmplace(impl, b) ==
    [x \in DOMAIN impl \cup {b} |->
        IF x \in DOMAIN impl THEN impl[x] + (IF x = b THEN 1 ELSE 0) ELSE 1]

\* for (size_t i = 0; i < str.size() - 1; ++i) m_impl.emplace(str[i], str[i+1])
RECURSIVE OrderedLoop(_, _, _)
OrderedLoop(impl, str, i) ==
    IF ~(i < Len(str) - 1) THEN impl
    ELSE OrderedLoop(OrderedEmplace(impl, <<str[i + 1], str[i + 2]>>), str, i + 1)

RECURSIVE UnorderedLoop(_, _, _)
UnorderedLoop(impl, str, i) ==
    IF ~(i < Len(str) - 1) THEN impl
    ELSE UnorderedLoop(UnorderedEmplace(impl, <<str[i + 1], str[i + 2]>>), str, i + 1)

\* basic_bigram_multiset(str), Implementation = std::multiset
bigram_multiset(str) ==
    IF Len(str) > 1 THEN OrderedLoop(<<>>, str, 0) ELSE <<>>

\* basic_bigram_multiset(str), Implementation = std::unordered_multiset
unordered_bigram_multiset(str) ==
    IF Len(str) > 1 THEN UnorderedLoop(<<>>, str, 0) ELSE <<>>

\* size(): m_impl.size()
OrderedSize(impl) == Len(impl)

RECURSIVE UnorderedSize(_)
UnorderedSize(impl) ==
    IF DOMAIN impl = {} THEN 0
    ELSE LET b == CHOOSE x \in DOMAIN impl : TRUE
         IN  impl[b] + UnorderedSize([x \in DOMAIN impl \ {b} |-> impl[x]])

\* the loop of operator += inserting only bigrams not yet held
RECURSIVE OrderedInsertAll_Once(_, _)
OrderedInsertAll_Once(impl, oth) ==
    IF oth = <<>> THEN impl
    ELSE OrderedInsertAll_Once(OrderedEmplace_Unique(impl, Head(oth)), Tail(oth))

\* for (const auto & bigram: other.m_impl) m_impl.insert(bigram),
\* std::multiset: oth is what is left of other.m_impl
RECURSIVE OrderedInsertAll(_, _)
OrderedInsertAll(impl, oth) ==
    IF oth = <<>> THEN impl
    ELSE OrderedInsertAll(OrderedEmplace(impl, Head(oth)), Tail(oth))

\* operator += whose shortcut for an empty *this returns *this as it is
OrderedPlusEq_EmptyKept(self, other) ==
    IF OrderedSize(self) = 0 THEN self ELSE OrderedInsertAll(self, other)

\* operator +=, std::multiset
OrderedPlusEq(self, other) ==
    IF OrderedSize(self) = 0 THEN other ELSE OrderedInsertAll(self, other)

\* operator +=, std::unordered_multiset: every element of other inserted,
\* whatever the order they come in
UnorderedPlusEq(self, other) ==
    IF UnorderedSize(self) = 0 THEN other
    ELSE [x \in DOMAIN self \cup DOMAIN other |->
            (IF x \in DOMAIN self THEN self[x] ELSE 0)
            + (IF x \in DOMAIN other THEN other[x] ELSE 0)]

\* operator +: unite(*this, other) = unite(other) += *this
OrderedPlus(self, other) == OrderedPlusEq(other, self)

UnorderedPlus(self, other) == UnorderedPlusEq(other, self)

\* unite(arg1, arg2, arg3) = (unite(arg3) += arg2) += arg1
OrderedUnite3(arg1, arg2, arg3) == OrderedPlusEq(OrderedPlusEq(arg3, arg2), arg1)

UnorderedUnite3(arg1, arg2, arg3) ==
    UnorderedPlusEq(UnorderedPlusEq(arg3, arg2), arg1)

\* set_intersection that passes over every element equal to one it has
\* counted, as on containers of unique elements
RECURSIVE set_intersection_Unique(_, _, _)
set_intersection_Unique(range1, range2, size) ==
    IF range1 = <<>> \/ range2 = <<>> THEN size
    ELSE IF BigramLess(Head(range1), Head(range2))
         THEN set_intersection_Unique(Tail(range1), range2, size)
    ELSE IF BigramLess(Head(range2), Head(range1))
         THEN set_intersection_Unique(range1, Tail(range2), size)
    ELSE LET Other(b) == b # Head(range1)
         IN  set_intersection_Unique(SelectSeq(range1, Other),
                                     SelectSeq(range2, Other), size + 1)

\* std::set_intersection(first1, last1, first2, last2, insert_counter(size)):
\* range1 and range2 are the two ranges as the containers iterate them, size
\* the number of assignments made through the output iterator
RECURSIVE set_intersection(_, _, _)
set_intersection(range1, range2, size) ==
    IF range1 = <<>> \/ range2 = <<>> THEN size
    ELSE IF BigramLess(Head(range1), Head(range2))
         THEN set_intersection(Tail(range1), range2, size)
    ELSE IF BigramLess(Head(range2), Head(range1))
         THEN set_intersection(range1, Tail(range2), size)
    ELSE set_intersection(Tail(range1), Tail(range2), size + 1)

\* intersect_size, std::multiset: begin() .. end() is the sorted sequence
OrderedIntersectSize(bigrams1, bigrams2) == set_intersection(bigrams1, bigrams2, 0)

\* The orders in which a std::unordered_multiset may iterate its elements:
\* any order of the distinct bigrams, equal elements next to each other
Arrangements(S) ==
    {f \in [1..Cardinality(S) -> S] : \A x \in S : \E k \in DOMAIN f : f[k] = x}

RECURSIVE Repeated(_, _)
Repeated(impl, keys) ==
    IF keys = <<>> THEN <<>>
    ELSE [k \in 1..impl[Head(keys)] |-> Head(keys)] \o Repeated(impl, Tail(keys))

IterationOrders(impl) == {Repeated(impl, keys) : keys \in Arrangements(DOMAIN impl)}

\* intersect_size, std::unordered_multiset: range1 and range2 are the orders
\* in which the two containers iterate
UnorderedIntersectSize(range1, range2) == set_intersection(range1, range2, 0)

(***************************************************************************)
(* Matrix cells and the matcher (sequence_matcher.hxx)                     *)
(***************************************************************************)
\* mx_cell()
NoneCell == [m_type |-> "NONE", m_value |-> 0]

\* mx_cell(const bigrams_t &)
BigramsCell(bgrms) == [m_type |-> "BIGRAMS", m_value |-> bgrms]

\* size() taken from the length of the list: one per distinct bigram
CellSize_Distinct(cell) ==
    IF cell.m_type = "SIZE" THEN cell.m_value ELSE Len(cell.m_value.m_impl)

\* mx_cell::size()
CellSize(cell) == IF cell.m_type = "SIZE" THEN cell.m_value ELSE cell.m_value.m_size

\* set_size that marks the cell as holding a size without storing the value
set_size_Unset(mx, i, j, size) ==
    [mx EXCEPT ![i + 1][j + 1] = [m_type |-> "SIZE", m_value |-> 0]]

\* mx_cell::set_size, on cell (i, j) of the matrix
set_size(mx, i, j, size) ==
    [mx EXCEPT ![i + 1][j + 1] = [m_type |-> "SIZE", m_value |-> size]]

\* set_bigrams that keeps the size of the profile only
set_bigrams_AsSize(mx, i, j, bgrms) ==
    [mx EXCEPT ![i + 1][j + 1] = [m_type |-> "SIZE", m_value |-> bgrms.m_size]]

\* mx_cell::set_bigrams, on cell (i, j) of the matrix
set_bigrams(mx, i, j, bgrms) ==
    [mx EXCEPT ![i + 1][j + 1] = [m_type |-> "BIGRAMS", m_value |-> bgrms]]

\* sub_ix whose second window starts one token early: j2 = j + i1
sub_ix_Overlap(i, j) ==
    LET i1 == i \div 2
        i2 == i1 + 1
    IN  [i1 |-> i1, j1 |-> j, i2 |-> i - i2, j2 |-> j + i1]

\* sub_ix whose second window stops one token short: i2 = i - i2 - 1
sub_ix_Short(i, j) ==
    LET i1 == i \div 2
        i2 == i1 + 1
    IN  [i1 |-> i1, j1 |-> j, i2 |-> i - i2 - 1, j2 |-> j + i2]

sub_ix(i, j) ==
    LET i1 == i \div 2
        i2 == i1 + 1
    IN  [i1 |-> i1, j1 |-> j, i2 |-> i - i2, j2 |-> j + i2]

RECURSIVE bigrams(_, _, _)

\* bigrams_size answering from the profile: bigrams(i, j).size()
bigrams_size_ViaProfile(mx, i, j) ==
    [mx |-> bigrams(mx, i, j).mx, result |-> bigrams(mx, i, j).result.m_size,
     ok |-> bigrams(mx, i, j).ok]

\* assert(i < size()), assert(j < row.size()).  The indices are size_t: a
\* difference that falls below 0 in sub_ix comes out as a number far above
\* any size, which a negative index stands for here.
InMatrix(mx, i, j) ==
    /\ 0 <= i /\ i < Len(mx)
    /\ 0 <= j /\ j < Len(mx[i + 1])

\* bigrams_size(i, j): the matrix after the call, the value returned and
\* whether every assertion on the way held (ok); a failed assertion ends
\* the program, which the calls above pass on as ok = FALSE.  The two
\* recursive calls work on disjoint windows of tokens, so the order in
\* which the operands of + are evaluated does not matter.
RECURSIVE bigrams_size(_, _, _)
bigrams_size(mx, i, j) ==
    IF ~InMatrix(mx, i, j) THEN [mx |-> mx, result |-> 0, ok |-> FALSE]
    ELSE
    LET cell == mx[i + 1][j + 1]
    IN  IF cell.m_type # "NONE"
        THEN [mx |-> mx, result |-> CellSize(cell), ok |-> TRUE]
        ELSE LET s == sub_ix(i, j)
                 r1 == bigrams_size(mx, s.i1, s.j1)
                 r2 == bigrams_size(r1.mx, s.i2, s.j2)
                 result == r1.result + r2.result
             IN  [mx |-> set_size(r2.mx, i, j, result), result |-> result,
                  ok |-> r1.ok /\ r2.ok /\ r2.mx[i + 1][j + 1].m_type = "NONE"]

\* bigrams(i, j): the matrix after the call, the profile returned and
\* whether every assertion on the way held
bigrams(mx, i, j) ==
    IF ~InMatrix(mx, i, j) THEN [mx |-> mx, result |-> EmptyBigrams, ok |-> FALSE]
    ELSE
    LET cell == mx[i + 1][j + 1]
    IN  IF cell.m_type # "BIGRAMS"
        THEN LET s == sub_ix(i, j)
                 r1 == bigrams(mx, s.i1, s.j1)
                 r2 == bigrams(r1.mx, s.i2, s.j2)
                 bgrms == Plus(r1.result, r2.result)
             IN  [mx |-> set_bigrams(r2.mx, i, j, bgrms), result |-> bgrms,
                  ok |-> r1.ok /\ r2.ok /\ r2.mx[i + 1][j + 1].m_type # "BIGRAMS"]
        ELSE [mx |-> mx, result |-> cell.m_value, ok |-> TRUE]

\* the cells at which bigrams_size(i, j) calls sub_ix: those it finds empty;
\* sub_ix(0, j) gives (0, j) again, nothing is followed from there
RECURSIVE SizeSplits(_, _, _)
SizeSplits(mx, i, j) ==
    IF ~InMatrix(mx, i, j) THEN {}
    ELSE IF mx[i + 1][j + 1].m_type # "NONE" THEN {}
    ELSE IF i = 0 THEN {<<i, j>>}
    ELSE {<<i, j>>}
         \cup SizeSplits(mx, sub_ix(i, j).i1, sub_ix(i, j).j1)
         \cup SizeSplits(bigrams_size(mx, sub_ix(i, j).i1, sub_ix(i, j).j1).mx,
                         sub_ix(i, j).i2, sub_ix(i, j).j2)

\* the cells at which bigrams(i, j) calls sub_ix: those holding no profile
RECURSIVE BigramsSplits(_, _, _)
BigramsSplits(mx, i, j) ==
    IF ~InMatrix(mx, i, j) THEN {}
    ELSE IF mx[i + 1][j + 1].m_type = "BIGRAMS" THEN {}
    ELSE IF i = 0 THEN {<<i, j>>}
    ELSE {<<i, j>>}
         \cup BigramsSplits(mx, sub_ix(i, j).i1, sub_ix(i, j).j1)
         \cup BigramsSplits(bigrams(mx, sub_ix(i, j).i1, sub_ix(i, j).j1).mx,
                            sub_ix(i, j).i2, sub_ix(i, j).j2)

\* the cells bigrams(i, j) can reach by following sub_ix down to row 0
RECURSIVE Tree(_, _)
Tree(i, j) ==
    IF i <= 0 THEN {<<i, j>>}
    ELSE {<<i, j>>}
         \cup Tree(sub_ix(i, j).i1, sub_ix(i, j).j1)
         \cup Tree(sub_ix(i, j).i2, sub_ix(i, j).j2)

\* basic_sequence_matcher::size()
size(mx) == Len(mx)

\* Capacities of the vectors: cap.mx is m_mx.capacity(), cap.rows[i + 1] is
\* m_mx[i].capacity().  A vector that is full grows to twice its capacity
\* when an element is added (libstdc++), otherwise keeps its capacity.
NoCapacity == [mx |-> 0, rows |-> <<>>]

Grow(capacity, len) ==
    IF len < capacity THEN capacity
    ELSE IF capacity = 0 THEN 1 ELSE 2 * capacity

\* reserve with m_mx.resize(len) in place of m_mx.reserve(len)
reserve_Resize(m, len) ==
    [m EXCEPT !.m_mx = IF len > Len(@)
                       THEN @ \o [k \in 1..(len - Len(@)) |-> <<>>]
                       ELSE SubSeq(@, 1, len),
              !.m_cap.mx = IF len > @ THEN len ELSE @]

\* reserve(len): m_mx.reserve(len) raises the capacity of the matrix and
\* touches no row.  m_strip_ixs.reserve(len) only sizes the bucket array of
\* the set, which no operation reads.
reserve(m, len) == [m EXCEPT !.m_cap.mx = IF len > @ THEN len ELSE @]

\* add_row: the matrix and capacities after it.  After m_mx.emplace_back()
\* the capacity exceeds back, so the new row always gets its reserve.
add_row(mx, cap) ==
    [mx |-> Append(mx, <<>>),
     cap |-> [mx |-> Grow(cap.mx, size(mx)),
              rows |-> Append(cap.rows, Grow(cap.mx, size(mx)) - size(mx))]]

\* push_back that starts every row above row 0 afresh
push_back_mx_Reset(mx, bgrms) ==
    [i \in 1..Len(mx) |->
        IF i = 1 THEN Append(mx[i], BigramsCell(bgrms))
                 ELSE [c \in 1..(Len(mx[i]) + 1) |-> NoneCell]]

\* push_back whose loop stops one row short: i < size() - 1
push_back_mx_RowShort(mx, bgrms) ==
    [i \in 1..Len(mx) |->
        IF i = 1 THEN Append(mx[i], BigramsCell(bgrms))
        ELSE IF i < Len(mx) THEN Append(mx[i], NoneCell)
        ELSE mx[i]]

\* push_back that leaves a moved-from, empty profile in the row-0 cell
push_back_mx_MovedFrom(mx, bgrms) ==
    [i \in 1..Len(mx) |->
        IF i = 1 THEN Append(mx[i], BigramsCell(EmptyBigrams))
                 ELSE Append(mx[i], NoneCell)]

\* push_back after add_row: the new row-0 cell, one empty cell in every
\* other row; mx is the matrix add_row left
push_back_mx(mx, bgrms) ==
    [i \in 1..Len(mx) |->
        IF i = 1 THEN Append(mx[i], BigramsCell(bgrms))
                 ELSE Append(mx[i], NoneCell)]

\* the capacities after those emplace_back calls
push_back_cap(mx, cap) ==
    [cap EXCEPT !.rows = [i \in 1..Len(mx) |-> Grow(cap.rows[i], Len(mx[i]))]]

\* the strip set of push_back with the insert made whatever strip says
push_back_strip_Always(mx, strip_ixs, strip) == strip_ixs \cup {size(mx)}

\* the strip set of push_back with the insert made after add_row
push_back_strip_Late(mx, strip_ixs, strip) ==
    IF strip THEN strip_ixs \cup {size(mx) + 1} ELSE strip_ixs

\* if (strip) m_strip_ixs.insert(size()), before add_row
push_back_strip(mx, strip_ixs, strip) ==
    IF strip THEN strip_ixs \cup {size(mx)} ELSE strip_ixs

\* push_back(bgrms, strip) on the matcher m = [m_mx, m_strip_ixs, m_cap]; r
\* is what add_row gave
Pushed(m, r, bgrms, strip) ==
    [m_mx |-> push_back_mx(r.mx, bgrms),
     m_strip_ixs |-> push_back_strip(m.m_mx, m.m_strip_ixs, strip),
     m_cap |-> push_back_cap(r.mx, r.cap)]

push_back(m, bgrms, strip) == Pushed(m, add_row(m.m_mx, m.m_cap), bgrms, strip)

\* emplace_back that does not hand the strip flag on
emplace_back_Unstripped(m, str, strip) == push_back(m, Bigrams(str), FALSE)

\* emplace_back(str, strip)
emplace_back(m, str, strip) == push_back(m, Bigrams(str), strip)

(***************************************************************************)
(* Inputs                                                                  *)
(***************************************************************************)
\* tokens appended as strings (emplace_back): "", "abcd"
EmplaceStrings == {<<>>, <<1, 2, 3, 4>>}

\* tokens appended as pre-built profiles (push_back): "cab"
PushProfiles == {Bigrams(<<3, 1, 2>>)}

\* query profiles: empty, "abcd", unite("abcd", "cab")
Queries ==
    {EmptyBigrams, Bigrams(<<1, 2, 3, 4>>),
     Plus(Bigrams(<<1, 2, 3, 4>>), Bigrams(<<3, 1, 2>>))}

\* thresholds: -1.0, 0.0, 0.5, 0.75, 1.0, 1.5
Thetas == {<<-1, 1>>, <<0, 1>>, <<1, 2>>, <<3, 4>>, <<1, 1>>, <<3, 2>>}

\* size of the largest token profile, of the largest query profile, of the
\* largest cell of the matrix
MaxOf(S) == CHOOSE x \in S : \A y \in S : y <= x

MaxTokenSize ==
    MaxOf({Bigrams(str).m_size : str \in EmplaceStrings}
          \cup {p.m_size : p \in PushProfiles})

\* The text of the unit test: "Prologue", " .", "  ", "Hello", "  ", "world",
\* " !", "Epilogue", " ." as character codes, with the strip flags given
HappyTokens ==
    << [str |-> <<80, 114, 111, 108, 111, 103, 117, 101>>, strip |-> FALSE],
       [str |-> <<32, 46>>, strip |-> TRUE],
       [str |-> <<32, 32>>, strip |-> TRUE],
       [str |-> <<72, 101, 108, 108, 111>>, strip |-> FALSE],
       [str |-> <<32, 32>>, strip |-> TRUE],
       [str |-> <<119, 111, 114, 108, 100>>, strip |-> FALSE],
       [str |-> <<32, 33>>, strip |-> TRUE],
       [str |-> <<69, 112, 105, 108, 111, 103, 117, 101>>, strip |-> FALSE],
       [str |-> <<32, 46>>, strip |-> FALSE] >>

\* matcher.reserve(9)
HappyReserved == Len(HappyTokens)

\* bigrams::unite(bigrams("Helo"), bigrams("  "), bigrams("wordl"))
HappyQuery ==
    Plus(Plus(Bigrams(<<72, 101, 108, 111>>), Bigrams(<<32, 32>>)),
         Bigrams(<<119, 111, 114, 100, 108>>))

\* 0.7
HappyTheta == <<7, 10>>

RECURSIVE HappySize(_)
HappySize(k) ==
    IF k = 0 THEN 0 ELSE HappySize(k - 1) + Bigrams(HappyTokens[k].str).m_size

MaxQuerySize == MaxOf({q.m_size : q \in Queries \cup {HappyQuery}})

MaxCellSize == MaxOf({MaxTokens * MaxTokenSize, HappySize(Len(HappyTokens))})

\* Strings a caller builds profiles from before uniting and comparing them:
\* "", "aaa", "aab", "abcd", "bcd"
AlgebraStrings ==
    {<<>>, <<1, 1, 1>>, <<1, 1, 2>>, <<1, 2, 3, 4>>, <<2, 3, 4>>}

\* number of unions a caller makes on its profiles
MaxUnions == 2

\* size of the largest profile after k unions, the three profiles having
\* sizes x <= y <= z: the largest union is that of all three
RECURSIVE MaxGrown(_, _, _, _)
MaxGrown(k, x, y, z) == IF k = 0 THEN z ELSE MaxGrown(k - 1, y, z, x + y + z)

MaxStringSize == MaxOf({Bigrams(str).m_size : str \in AlgebraStrings})

MaxProfileSize == MaxGrown(MaxUnions, MaxStringSize, MaxStringSize, MaxStringSize)

(***************************************************************************)
(* Sorensen-Dice coefficient (bigrams.hxx)                                 *)
(***************************************************************************)
\* the quotient without the factor 2.0
SdcQuotient_Single(isect_size, total) == Div(FromInt(isect_size), FromInt(total))

\* 2.0 * isect_size / (size1 + size2): the product is exact
SdcQuotient(isect_size, total) == Div(FromInt(2 * isect_size), FromInt(total))

\* the quotient, tabulated over the values the model meets
SdcTable ==
    [isect_size \in 0..MaxOf({MaxQuerySize, MaxProfileSize}),
     total \in 0..MaxOf({MaxCellSize + MaxQuerySize, 2 * MaxProfileSize}) |->
        SdcQuotient(isect_size, total)]

\* sorensen_dice_coef without the test for an empty intersection
sorensen_dice_coef_Unguarded(bigrams1, bigrams2) ==
    SdcTable[intersect_size(bigrams1, bigrams2), bigrams1.m_size + bigrams2.m_size]

\* bigrams::sorensen_dice_coef(bigrams1, bigrams2)
sorensen_dice_coef(bigrams1, bigrams2) ==
    LET isect_size == intersect_size(bigrams1, bigrams2)
    IN  IF isect_size # 0
        THEN SdcTable[isect_size, bigrams1.m_size + bigrams2.m_size]
        ELSE Zero(FALSE)

\* basic_bigram_multiset::sorensen_dice_coef: isect_size is what
\* intersect_size gave, size1 and size2 are bigrams1.size(), bigrams2.size()
MultisetSdc(isect_size, size1, size2) ==
    IF isect_size # 0 THEN SdcTable[isect_size, size1 + size2] ELSE Zero(FALSE)

\* sorensen_dice_coef, std::multiset
OrderedSdc(bigrams1, bigrams2) ==
    MultisetSdc(OrderedIntersectSize(bigrams1, bigrams2),
                OrderedSize(bigrams1), OrderedSize(bigrams2))

(***************************************************************************)
(* Match iterator                                                          *)
(*                                                                         *)
(* A threshold is written <<n, d>>: the double nearest to n / d, which is  *)
(* what the literal (0.75, 0.5, ...) denotes in a caller's source.         *)
(***************************************************************************)
Literal(t) == Div(FromInt(t[1]), FromInt(t[2]))

\* m_card_ratio_threshold(2.0 / threshold - 1.0)
RatioBound(threshold) == MinusOne(Div(FromInt(2), threshold))

\* card_ratio and subseq_short of next_match
RatioOf(bsize, qsize) ==
    LET ratio == Div(FromInt(bsize), FromInt(qsize))
        subseq_short == Less(ratio, One)
    IN  [subseq_short |-> subseq_short,
         card_ratio |-> IF subseq_short THEN Div(One, ratio) ELSE ratio]

\* The three computations above, tabulated over the values the model meets
ThresholdTable ==
    [t \in Thetas \cup {<<0, 1>>, HappyTheta} |->
        [threshold |-> Literal(t), card_ratio_threshold |-> RatioBound(Literal(t))]]

\* m_sdc_threshold(threshold)
Threshold(t) == ThresholdTable[t].threshold

\* m_card_ratio_threshold(2.0 / threshold - 1.0)
CardRatioThreshold(t) == ThresholdTable[t].card_ratio_threshold

CardRatioTable ==
    [bsize \in 0..MaxCellSize, qsize \in 0..MaxQuerySize |-> RatioOf(bsize, qsize)]

CardRatio(bsize, qsize) == CardRatioTable[bsize, qsize]

\* the test the other way round: card_ratio < m_card_ratio_threshold
TooSmall_Below(card_ratio, card_ratio_threshold) == Less(card_ratio, card_ratio_threshold)

\* card_ratio > m_card_ratio_threshold
TooSmall(card_ratio, card_ratio_threshold) == Less(card_ratio_threshold, card_ratio)

\* m_sdc <= m_sdc_threshold
NotUpToScratch_Inclusive(sdc, sdc_threshold) ==
    Less(sdc, sdc_threshold) \/ sdc = sdc_threshold

\* m_sdc < m_sdc_threshold
NotUpToScratch(sdc, sdc_threshold) == Less(sdc, sdc_threshold)

RECURSIVE InnerLoop(_, _)

\* The inner loop from line 349 on: sdc is the coefficient just computed
Scored(m, it, sdc) ==
    IF NotUpToScratch(sdc, it.m_sdc_threshold)
    THEN InnerLoop(m, [it EXCEPT !.m_sdc = sdc, !.m_i = @ + 1])
    ELSE [m |-> m, it |-> [it EXCEPT !.m_sdc = sdc], found |-> TRUE]

\* the inner loop scoring a profile computed aside, the matrix left as it was
Unioned_Aside(m, it, bg) ==
    Scored(m, [it EXCEPT !.ok = @ /\ bg.ok], sorensen_dice_coef(bg.result, it.m_bigrams))

\* The inner loop from line 347 on: bg is what bigrams(m_i, m_j) gave
Unioned(m, it, bg) ==
    Scored([m EXCEPT !.m_mx = bg.mx], [it EXCEPT !.ok = @ /\ bg.ok],
           sorensen_dice_coef(bg.result, it.m_bigrams))

\* The inner loop from line 330 on, with the size of the cell at hand: bs is
\* what bigrams_size(m_i, m_j) gave
Sized(m, it, bs) ==
    IF TooSmall(CardRatio(bs.result, it.m_bigrams.m_size).card_ratio,
                it.m_card_ratio_threshold)
    THEN IF CardRatio(bs.result, it.m_bigrams.m_size).subseq_short
         THEN InnerLoop([m EXCEPT !.m_mx = bs.mx],
                        [it EXCEPT !.m_i = @ + 1, !.ok = @ /\ bs.ok])
         ELSE [m |-> [m EXCEPT !.m_mx = bs.mx], it |-> [it EXCEPT !.ok = @ /\ bs.ok],
               found |-> FALSE]
    ELSE Unioned(m, [it EXCEPT !.ok = @ /\ bs.ok], bigrams(bs.mx, it.m_i, it.m_j))

\* the inner loop without the test of the window's last token for "strip"
InnerLoop_EndUnchecked(m, it) ==
    IF ~(it.m_i < size(m.m_mx) - it.m_j) THEN [m |-> m, it |-> it, found |-> FALSE]
    ELSE Sized(m, it, bigrams_size(m.m_mx, it.m_i, it.m_j))

\* the inner loop running one row too far: m_i <= m_matcher.size() - m_j
InnerLoop_OnePast(m, it) ==
    IF ~(it.m_i <= size(m.m_mx) - it.m_j) THEN [m |-> m, it |-> it, found |-> FALSE]
    ELSE IF (it.m_j + it.m_i) \in m.m_strip_ixs
         THEN InnerLoop(m, [it EXCEPT !.m_i = @ + 1])
    ELSE Sized(m, it, bigrams_size(m.m_mx, it.m_i, it.m_j))

\* The inner for loop of next_match.  m is the matcher [m_mx, m_strip_ixs],
\* it the iterator; the result says whether the loop was left by return
\* (found) or by its condition or break.
InnerLoop(m, it) ==
    IF ~(it.m_i < size(m.m_mx) - it.m_j) THEN [m |-> m, it |-> it, found |-> FALSE]
    ELSE IF (it.m_j + it.m_i) \in m.m_strip_ixs
         THEN InnerLoop(m, [it EXCEPT !.m_i = @ + 1])
    ELSE Sized(m, it, bigrams_size(m.m_mx, it.m_i, it.m_j))

RECURSIVE next_match(_, _)

\* the outer loop after its inner loop: r is what the inner loop gave
AfterInner(r) ==
    IF r.found THEN [m |-> r.m, it |-> r.it]
    ELSE next_match(r.m, [r.it EXCEPT !.m_i = 0, !.m_j = @ + 1])

\* next_match: the outer for loop
next_match(m, it) ==
    IF ~(it.m_j < size(m.m_mx)) THEN [m |-> m, it |-> it]
    ELSE IF it.m_j \in m.m_strip_ixs
         THEN next_match(m, [it EXCEPT !.m_j = @ + 1])
    ELSE AfterInner(InnerLoop(m, it))

\* iterator(matcher, bgrms, threshold, i, j); theta is the threshold as the
\* caller wrote it, kept for reference only; ok says that no assertion has
\* failed in the calls made through the iterator
Iterator(m, bgrms, theta, i, j) ==
    next_match(m, [live |-> TRUE,
                   theta |-> theta,
                   m_bigrams |-> bgrms,
                   m_sdc_threshold |-> Threshold(theta),
                   m_card_ratio_threshold |-> CardRatioThreshold(theta),
                   m_i |-> i, m_j |-> j,
                   m_sdc |-> Zero(FALSE),
                   ok |-> TRUE])

\* begin(bgrms, threshold)
Begin(m, bgrms, theta) == Iterator(m, bgrms, theta, 0, 0)

\* end() placed one column past the last
End_PastSize(m) == Iterator(m, EmptyBigrams, <<0, 1>>, 0, size(m.m_mx) + 1).it

\* end(): iterator(matcher, END)
End(m) == Iterator(m, EmptyBigrams, <<0, 1>>, 0, size(m.m_mx)).it

\* operator ++ without ++m_i
Increment_Stay(m, it) == next_match(m, it)

\* operator ++
Increment(m, it) == next_match(m, [it EXCEPT !.m_i = @ + 1])

\* operator == comparing every member
IterEq_Whole(a, b) == a = b

\* operator ==
IterEq(a, b) == a.m_i = b.m_i /\ a.m_j = b.m_j

\* operator < comparing m_i before m_j
IterLess_RowFirst(a, b) ==
    IF a.m_i < b.m_i THEN TRUE
    ELSE IF a.m_i > b.m_i THEN FALSE
    ELSE a.m_j < b.m_j

\* operator <
IterLess(a, b) ==
    IF a.m_j < b.m_j THEN TRUE
    ELSE IF a.m_j > b.m_j THEN FALSE
    ELSE a.m_i < b.m_i

\* what a caller reads off a match: begin(), end(), size(), sorensen_dice_coef()
Match(it) ==
    [begin |-> it.m_j, end |-> it.m_j + (it.m_i + 1), size |-> it.m_i + 1,
     sdc |-> it.m_sdc]

\* operator *: m_matcher.bigrams(m_i, m_j)
Deref(m, it) == bigrams(m.m_mx, it.m_i, it.m_j)

\* for (match = begin(bgrms, theta); match != end(); ++match): the matches
RECURSIVE Collect(_, _)
Collect(r, acc) ==
    IF IterEq(r.it, End(r.m)) THEN acc
    ELSE Collect(Increment(r.m, r.it), Append(acc, Match(r.it)))

Matches(m, bgrms, theta) == Collect(Begin(m, bgrms, theta), <<>>)

(***************************************************************************)
(* State                                                                   *)
(***************************************************************************)
VARIABLES
    m_mx,           \* the matrix: rows of cells
    m_strip_ixs,    \* indices of "strip" tokens
    m_cap,          \* capacities of m_mx and of its rows
    iter,           \* the caller's match iterator, if it holds one
    incs,           \* number of ++ applied to iter since begin
    hist,           \* positions iter has rested at since begin
    log,            \* the appends made so far, with their arguments
    profs,          \* a string and the profiles a caller has built from it
    regs,           \* three profiles a caller unites and compares
    iter2           \* a second match iterator of the caller and its matches

vars == <<m_mx, m_strip_ixs, m_cap, iter, incs, hist, log, profs, regs, iter2>>

Matcher == [m_mx |-> m_mx, m_strip_ixs |-> m_strip_ixs, m_cap |-> m_cap]

NoIter ==
    [live |-> FALSE, theta |-> <<0, 1>>, m_bigrams |-> EmptyBigrams,
     m_sdc_threshold |-> Zero(FALSE), m_card_ratio_threshold |-> Zero(FALSE),
     m_i |-> 0, m_j |-> 0, m_sdc |-> Zero(FALSE), ok |-> TRUE]

\* the caller holds no second iterator
NoSecond == [it |-> NoIter, hist |-> <<>>]

AtEnd == IterEq(iter, End(Matcher))

Triangle(n) == (n * (n + 1)) \div 2

\* no profile built yet from the string str
NoProfiles(str) ==
    [str |-> str, built |-> {}, counted |-> EmptyBigrams, ordered |-> <<>>,
     unordered |-> <<>>]

\* the profiles of the three representations built from the string str
ProfilesOf(str) ==
    [counted |-> Bigrams(str), ordered |-> bigram_multiset(str),
     unordered |-> unordered_bigram_multiset(str)]

RegNames == {"P", "Q", "R"}

\* nothing compared yet
NotSeen == [r1 |-> "", r2 |-> "", range1 |-> <<>>, range2 |-> <<>>, size |-> 0]

\* no operator += on an object and itself under way
NoLoop == [r |-> "", from |-> <<>>, it |-> 0, inserted |-> 0, returned |-> FALSE]

\* three default-constructed profiles
NoRegs ==
    [reg |-> [r \in RegNames |-> ProfilesOf(<<>>)], unions |-> 0, seen |-> NotSeen,
     loop |-> NoLoop]

\* basic_sequence_matcher()
NewMatcher == [m_mx |-> <<>>, m_strip_ixs |-> {}, m_cap |-> NoCapacity]

Init ==
    /\ m_mx = NewMatcher.m_mx
    /\ m_strip_ixs = NewMatcher.m_strip_ixs
    /\ m_cap = NewMatcher.m_cap
    /\ iter = NoIter
    /\ incs = 0
    /\ hist = <<>>
    /\ log = <<>>
    /\ profs = NoProfiles(<<>>)
    /\ regs = NoRegs
    /\ iter2 = NoSecond

\* the matcher becomes m
Becomes(m) ==
    /\ m_mx' = m.m_mx
    /\ m_strip_ixs' = m.m_strip_ixs
    /\ m_cap' = m.m_cap

\* push_back(bgrms, strip); the caller holds no iterator while appending
PushBack(bgrms, strip) ==
    /\ ~iter.live
    /\ size(m_mx) < MaxTokens
    /\ Becomes(push_back(Matcher, bgrms, strip))
    /\ log' = Append(log, [op |-> "push_back", arg |-> bgrms, strip |-> strip])
    /\ UNCHANGED <<iter, incs, hist, profs, regs, iter2>>

\* emplace_back(str, strip)
EmplaceBack(str, strip) ==
    /\ ~iter.live
    /\ size(m_mx) < MaxTokens
    /\ Becomes(emplace_back(Matcher, str, strip))
    /\ log' = Append(log, [op |-> "emplace_back", arg |-> str, strip |-> strip])
    /\ UNCHANGED <<iter, incs, hist, profs, regs, iter2>>

\* reserve(len)
Reserve(len) ==
    /\ ~iter.live
    /\ Becomes(reserve(Matcher, len))
    /\ UNCHANGED <<iter, incs, hist, log, profs, regs, iter2>>

\* the iterator comes to rest: r is what begin or ++ gave, h the matches
\* seen before
Rest(r, h) ==
    /\ m_mx' = r.m.m_mx
    /\ iter' = r.it
    /\ hist' = IF IterEq(r.it, End(r.m)) THEN h ELSE Append(h, Match(r.it))

\* match = matcher.begin(bgrms, theta)
BeginMatch(bgrms, theta) ==
    /\ ~iter.live
    /\ Rest(Begin(Matcher, bgrms, theta), <<>>)
    /\ incs' = 0
    /\ UNCHANGED <<m_strip_ixs, m_cap, log, profs, regs, iter2>>

\* ++match, on an iterator that is not yet at the end
NextMatch ==
    /\ iter.live
    /\ ~AtEnd
    /\ incs <= Triangle(size(m_mx))
    /\ Rest(Increment(Matcher, iter), hist)
    /\ incs' = incs + 1
    /\ UNCHANGED <<m_strip_ixs, m_cap, log, profs, regs, iter2>>

\* the caller lets go of the iterator
Drop ==
    /\ iter.live
    /\ iter' = NoIter
    /\ incs' = 0
    /\ hist' = <<>>
    /\ UNCHANGED <<m_mx, m_strip_ixs, m_cap, log, profs, regs, iter2>>

Next ==
    \/ \E p \in PushProfiles, strip \in BOOLEAN : PushBack(p, strip)
    \/ \E str \in EmplaceStrings, strip \in BOOLEAN : EmplaceBack(str, strip)
    \/ \E q \in Queries, t \in Thetas : BeginMatch(q, t)
    \/ NextMatch
    \/ Drop

Spec == Init /\ [][Next]_vars

\* the matcher alone, appends only
NextAppend ==
    \/ \E p \in PushProfiles, strip \in BOOLEAN : PushBack(p, strip)
    \/ \E str \in EmplaceStrings, strip \in BOOLEAN : EmplaceBack(str, strip)

SpecAppend == Init /\ [][NextAppend]_vars

\* the matcher alone, appends interleaved with reserve calls
ReserveLens == {1, MaxTokens, MaxTokens + 2}

NextReserve ==
    \/ \E p \in PushProfiles, strip \in BOOLEAN : PushBack(p, strip)
    \/ \E str \in EmplaceStrings, strip \in BOOLEAN : EmplaceBack(str, strip)
    \/ \E len \in ReserveLens : Reserve(len)

SpecReserve == Init /\ [][NextReserve]_vars

\* The unit test: reserve, the nine appends (each by emplace_back of the
\* string or by push_back of its profile), begin, ++
\* theta in (0, 1]
InUnitRange(theta) == theta[1] > 0 /\ theta[1] <= theta[2]

\* Appends, reserve calls and queries with a threshold in (0, 1]
BeginInUnit(bgrms, theta) == InUnitRange(theta) /\ BeginMatch(bgrms, theta)

NextAsserted ==
    \/ \E p \in PushProfiles, strip \in BOOLEAN : PushBack(p, strip)
    \/ \E str \in EmplaceStrings, strip \in BOOLEAN : EmplaceBack(str, strip)
    \/ \E len \in ReserveLens : Reserve(len)
    \/ \E q \in Queries, t \in Thetas : BeginInUnit(q, t)
    \/ NextMatch
    \/ Drop

SpecAsserted == Init /\ [][NextAsserted]_vars

\* ++ that resumes from where the caller's other iterator rests
wsequence_matcher_iter_inc_Shared(m, it) ==
    Increment(m, [it EXCEPT !.m_i = iter.m_i, !.m_j = iter.m_j])

\* wsequence_matcher_iter_inc: ++*iter
wsequence_matcher_iter_inc(m, it) == Increment(m, it)

\* the second iterator comes to rest: r is what begin or ++ gave, h the
\* matches it has reported before
Rest2(r, h) ==
    /\ m_mx' = r.m.m_mx
    /\ iter2' = [it |-> r.it,
                 hist |-> IF IterEq(r.it, End(r.m)) THEN h
                          ELSE Append(h, Match(r.it))]

\* a second iterator: wsequence_matcher_begin(matcher, bgrms, theta)
BeginSecond(bgrms, theta) ==
    /\ ~iter2.it.live
    /\ Rest2(Begin(Matcher, bgrms, theta), <<>>)
    /\ UNCHANGED <<m_strip_ixs, m_cap, iter, incs, hist, log, profs, regs>>

\* ++ on the second iterator, not yet at the end
NextSecond ==
    /\ iter2.it.live
    /\ ~IterEq(iter2.it, End(Matcher))
    /\ Rest2(wsequence_matcher_iter_inc(Matcher, iter2.it), iter2.hist)
    /\ UNCHANGED <<m_strip_ixs, m_cap, iter, incs, hist, log, profs, regs>>

\* the caller lets go of the second iterator
DropSecond ==
    /\ iter2.it.live
    /\ iter2' = NoSecond
    /\ UNCHANGED <<m_mx, m_strip_ixs, m_cap, iter, incs, hist, log, profs, regs>>

\* thresholds of interleaved iterations: 0, 1/2, 3/4
InterleavedThetas == {<<0, 1>>, <<1, 2>>, <<3, 4>>}

\* Two iterators over one matcher, advanced in any order; tokens are
\* appended only while the caller holds no iterator
NextInterleaved ==
    \/ \E p \in PushProfiles, strip \in BOOLEAN :
          ~iter2.it.live /\ PushBack(p, strip)
    \/ \E str \in EmplaceStrings, strip \in BOOLEAN :
          ~iter2.it.live /\ EmplaceBack(str, strip)
    \/ \E q \in Queries, t \in InterleavedThetas : BeginMatch(q, t)
    \/ NextMatch
    \/ Drop
    \/ \E q \in Queries, t \in InterleavedThetas : BeginSecond(q, t)
    \/ NextSecond
    \/ DropSecond

SpecInterleaved == Init /\ [][NextInterleaved]_vars

HappyReserve ==
    /\ ~iter.live
    /\ log = <<>>
    /\ m_cap = NoCapacity
    /\ Becomes(reserve(Matcher, HappyReserved))
    /\ UNCHANGED <<iter, incs, hist, log, profs, regs, iter2>>

HappyEmplace ==
    /\ ~iter.live
    /\ m_cap # NoCapacity
    /\ Len(log) < Len(HappyTokens)
    /\ Becomes(emplace_back(Matcher, HappyTokens[Len(log) + 1].str,
                            HappyTokens[Len(log) + 1].strip))
    /\ log' = Append(log, [op |-> "emplace_back",
                           arg |-> HappyTokens[Len(log) + 1].str,
                           strip |-> HappyTokens[Len(log) + 1].strip])
    /\ UNCHANGED <<iter, incs, hist, profs, regs, iter2>>

HappyPush ==
    /\ ~iter.live
    /\ m_cap # NoCapacity
    /\ Len(log) < Len(HappyTokens)
    /\ Becomes(push_back(Matcher, Bigrams(HappyTokens[Len(log) + 1].str),
                         HappyTokens[Len(log) + 1].strip))
    /\ log' = Append(log, [op |-> "push_back",
                           arg |-> Bigrams(HappyTokens[Len(log) + 1].str),
                           strip |-> HappyTokens[Len(log) + 1].strip])
    /\ UNCHANGED <<iter, incs, hist, profs, regs, iter2>>

HappyBegin ==
    /\ Len(log) = Len(HappyTokens)
    /\ BeginMatch(HappyQuery, HappyTheta)

NextHappy ==
    \/ HappyReserve
    \/ HappyEmplace
    \/ HappyPush
    \/ HappyBegin
    \/ NextMatch

SpecHappy == Init /\ [][NextHappy]_vars

\* Profiles from strings: a caller with a string of up to MaxStrLen
\* characters builds a profile of each representation from it
MaxStrLen == 4

Chars == 1..4

Strings == UNION {[1..n -> Chars] : n \in 0..MaxStrLen}

InitProfiles ==
    /\ m_mx = NewMatcher.m_mx
    /\ m_strip_ixs = NewMatcher.m_strip_ixs
    /\ m_cap = NewMatcher.m_cap
    /\ iter = NoIter
    /\ incs = 0
    /\ hist = <<>>
    /\ log = <<>>
    /\ \E str \in Strings : profs = NoProfiles(str)
    /\ regs = NoRegs
    /\ iter2 = NoSecond

\* bigrams(str)
BuildCounted ==
    /\ "counted" \notin profs.built
    /\ profs' = [profs EXCEPT !.counted = Bigrams(profs.str),
                              !.built = @ \cup {"counted"}]
    /\ UNCHANGED <<m_mx, m_strip_ixs, m_cap, iter, incs, hist, log, regs, iter2>>

\* bigram_multiset(str)
BuildOrdered ==
    /\ "ordered" \notin profs.built
    /\ profs' = [profs EXCEPT !.ordered = bigram_multiset(profs.str),
                              !.built = @ \cup {"ordered"}]
    /\ UNCHANGED <<m_mx, m_strip_ixs, m_cap, iter, incs, hist, log, regs, iter2>>

\* unordered_bigram_multiset(str)
BuildUnordered ==
    /\ "unordered" \notin profs.built
    /\ profs' = [profs EXCEPT !.unordered = unordered_bigram_multiset(profs.str),
                              !.built = @ \cup {"unordered"}]
    /\ UNCHANGED <<m_mx, m_strip_ixs, m_cap, iter, incs, hist, log, regs, iter2>>

NextProfiles ==
    \/ BuildCounted
    \/ BuildOrdered
    \/ BuildUnordered

SpecProfiles == InitProfiles /\ [][NextProfiles]_vars

\* Profile algebra: a caller builds three profiles from strings, in each
\* representation, and unites them
InitAlgebra ==
    /\ m_mx = NewMatcher.m_mx
    /\ m_strip_ixs = NewMatcher.m_strip_ixs
    /\ m_cap = NewMatcher.m_cap
    /\ iter = NoIter
    /\ incs = 0
    /\ hist = <<>>
    /\ log = <<>>
    /\ profs = NoProfiles(<<>>)
    /\ \E f \in [RegNames -> AlgebraStrings] :
          regs = [reg |-> [r \in RegNames |-> ProfilesOf(f[r])], unions |-> 0,
                  seen |-> NotSeen, loop |-> NoLoop]
    /\ iter2 = NoSecond

\* the registers after a union that left profile p in register r
United(r, p) == [regs EXCEPT !.reg[r] = p, !.unions = @ + 1]

\* what r1 += r2 leaves in r1, two different profiles
UnionOf(r1, r2) ==
    [counted |-> PlusEq(regs.reg[r1].counted, regs.reg[r2].counted),
     ordered |-> OrderedPlusEq(regs.reg[r1].ordered, regs.reg[r2].ordered),
     unordered |-> UnorderedPlusEq(regs.reg[r1].unordered, regs.reg[r2].unordered)]

\* r1 += r2, two different profiles
UnionInto(r1, r2) ==
    /\ r1 # r2
    /\ regs.unions < MaxUnions
    /\ regs' = United(r1, UnionOf(r1, r2))
    /\ UNCHANGED <<m_mx, m_strip_ixs, m_cap, iter, incs, hist, log, profs, iter2>>

\* r = unite(P, Q, R)
UniteAll(r) ==
    /\ regs.unions < MaxUnions
    /\ regs' = United(r,
                      [counted |-> Unite3(regs.reg["P"].counted, regs.reg["Q"].counted,
                                          regs.reg["R"].counted),
                       ordered |-> OrderedUnite3(regs.reg["P"].ordered,
                                                 regs.reg["Q"].ordered,
                                                 regs.reg["R"].ordered),
                       unordered |-> UnorderedUnite3(regs.reg["P"].unordered,
                                                     regs.reg["Q"].unordered,
                                                     regs.reg["R"].unordered)])
    /\ UNCHANGED <<m_mx, m_strip_ixs, m_cap, iter, incs, hist, log, profs, iter2>>

NextAlgebra ==
    \/ \E r1 \in RegNames, r2 \in RegNames : UnionInto(r1, r2)
    \/ \E r \in RegNames : UniteAll(r)

SpecAlgebra == InitAlgebra /\ [][NextAlgebra]_vars

\* Unordered multisets compared: intersect_size(r1, r2) on the unordered
\* multisets of two registers, each iterating in one of the orders an
\* unordered container may have; one object iterates in one order
Compare(r1, r2) ==
    /\ \E range1 \in IterationOrders(regs.reg[r1].unordered) :
          \E range2 \in IF r1 = r2 THEN {range1}
                         ELSE IterationOrders(regs.reg[r2].unordered) :
              regs' = [regs EXCEPT !.seen =
                          [r1 |-> r1, r2 |-> r2, range1 |-> range1, range2 |-> range2,
                           size |-> UnorderedIntersectSize(range1, range2)]]
    /\ UNCHANGED <<m_mx, m_strip_ixs, m_cap, iter, incs, hist, log, profs, iter2>>

NextUnordered == \E r1 \in RegNames, r2 \in RegNames : Compare(r1, r2)

SpecUnordered == InitAlgebra /\ [][NextUnordered]_vars

\* A profile united into itself, p += p, as wbigrams_iadd(p, p) does: other
\* is *this. The counted operator += returns; the loop of the std::multiset
\* one is taken step by step: it is the iterator of the range-for over
\* other.m_impl, which is m_impl itself, as an index into it (Len + 1 is
\* end()), from is m_impl as the call found it.
MaxInserts == 3

\* no call of operator += is under way
Returned == regs.loop.r = "" \/ regs.loop.returned

\* r1 += r2 on two different objects, between calls
UnionOther(r1, r2) ==
    /\ Returned
    /\ r1 # r2
    /\ regs.unions < MaxUnions
    /\ regs' = [United(r1, UnionOf(r1, r2)) EXCEPT !.loop = NoLoop]
    /\ UNCHANGED <<m_mx, m_strip_ixs, m_cap, iter, incs, hist, log, profs, iter2>>

\* r += r, counted profile
SelfUnion(r) ==
    /\ Returned
    /\ regs.unions < MaxUnions
    /\ regs' = [regs EXCEPT !.reg[r].counted = PlusEqSelf(@), !.unions = @ + 1,
                             !.loop = NoLoop]
    /\ UNCHANGED <<m_mx, m_strip_ixs, m_cap, iter, incs, hist, log, profs, iter2>>

\* r += r, std::multiset: if (size() == 0) return *this = other, else the
\* range-for starts at other.m_impl.begin()
OrderedSelfBegin(r) ==
    /\ Returned
    /\ regs.unions < MaxUnions
    /\ regs' = [regs EXCEPT
                  !.unions = @ + 1,
                  !.loop = [r |-> r, from |-> regs.reg[r].ordered, it |-> 1,
                            inserted |-> 0,
                            returned |-> OrderedSize(regs.reg[r].ordered) = 0]]
    /\ UNCHANGED <<m_mx, m_strip_ixs, m_cap, iter, incs, hist, log, profs, iter2>>

\* one turn of the range-for: at end() the operator returns, else
\* m_impl.insert(bigram), which puts the copy after the elements equal to
\* it, and ++ on the iterator
OrderedSelfStep ==
    /\ ~Returned
    /\ regs.loop.inserted < MaxInserts
    /\ regs' = IF regs.loop.it = OrderedSize(regs.reg[regs.loop.r].ordered) + 1
               THEN [regs EXCEPT !.loop.returned = TRUE]
               ELSE [regs EXCEPT
                       !.reg[regs.loop.r].ordered =
                           OrderedEmplace(@, @[regs.loop.it]),
                       !.loop.it = @ + 1,
                       !.loop.inserted = @ + 1]
    /\ UNCHANGED <<m_mx, m_strip_ixs, m_cap, iter, incs, hist, log, profs, iter2>>

NextSelf ==
    \/ \E r1 \in RegNames, r2 \in RegNames : UnionOther(r1, r2)
    \/ \E r \in RegNames : SelfUnion(r)
    \/ \E r \in RegNames : OrderedSelfBegin(r)
    \/ OrderedSelfStep

SpecSelf == InitAlgebra /\ [][NextSelf]_vars

(***************************************************************************)
(* Reference notions the properties are stated with: the multiset union of *)
(* the token profiles j .. j+i, taken bigram by bigram from row 0, and its *)
(* Sorensen-Dice coefficient against a query profile.                      *)
(***************************************************************************)
AllBigrams == Chars \X Chars

\* number of occurrences of bigram b in a profile
RECURSIVE CountIn(_, _)
CountIn(impl, b) ==
    IF impl = <<>> THEN 0
    ELSE (IF Head(impl)[1] = b THEN Head(impl)[2] ELSE 0) + CountIn(Tail(impl), b)

Token(k) == m_mx[1][k + 1].m_value

\* occurrences of b in the tokens j .. j+i
RECURSIVE WindowCount(_, _, _)
WindowCount(i, j, b) ==
    CountIn(Token(j + i).m_impl, b) + (IF i = 0 THEN 0 ELSE WindowCount(i - 1, j, b))

\* number of bigrams of the tokens j .. j+i
RECURSIVE WindowSize(_, _)
WindowSize(i, j) ==
    Token(j + i).m_size + (IF i = 0 THEN 0 ELSE WindowSize(i - 1, j))

RECURSIVE SumOver(_, _)
SumOver(S, f) ==
    IF S = {} THEN 0
    ELSE LET x == CHOOSE y \in S : TRUE IN f[x] + SumOver(S \ {x}, f)

\* |window /\ q| as multisets
WindowIsect(i, j, q) ==
    SumOver(AllBigrams, [b \in AllBigrams |-> Min(WindowCount(i, j, b), CountIn(q.m_impl, b))])

\* SDC(union of the token profiles j .. j+i, q)
WindowSDC(i, j, q) ==
    LET isect == WindowIsect(i, j, q)
    IN  IF isect = 0 THEN Zero(FALSE) ELSE SdcTable[isect, WindowSize(i, j) + q.m_size]

N == size(m_mx)

InTriangle(i, j) == i >= 0 /\ j >= 0 /\ i + j < N

EndsNotStripped(i, j) == j \notin m_strip_ixs /\ (j + i) \notin m_strip_ixs

\* the cells a complete enumeration has to report
Qualifying(q, theta) ==
    {c \in (0..(N - 1)) \X (0..(N - 1)) :
        /\ InTriangle(c[1], c[2])
        /\ EndsNotStripped(c[1], c[2])
        /\ ~Less(WindowSDC(c[1], c[2], q), Threshold(theta))}

\* the cells with both ends not stripped
Unstripped ==
    {c \in (0..(N - 1)) \X (0..(N - 1)) :
        InTriangle(c[1], c[2]) /\ EndsNotStripped(c[1], c[2])}

\* the cells (i, j) the iterator has rested at since begin
HistCells == {<<hist[k].size - 1, hist[k].begin>> : k \in 1..Len(hist)}

\* the matrix with every cell above row 0 forgotten
Fresh(m) ==
    [m EXCEPT !.m_mx = [r \in 1..Len(m.m_mx) |->
        IF r = 1 THEN m.m_mx[r] ELSE [c \in 1..Len(m.m_mx[r]) |-> NoneCell]]]

\* the kinds of content found above row 0
CellTypes == UNION {{m_mx[r][c].m_type : c \in 1..Len(m_mx[r])} : r \in 2..N}

(***************************************************************************)
(* Properties                                                              *)
(***************************************************************************)

\* C1: for a threshold in (0, 1], wherever the iterator rests short of the
\* end (after begin or after any ++) it is on a cell (i, j) of the triangle
\* whose first and last token are not stripped and whose SDC against the
\* query, taken over the union of the token profiles j .. j+i, is at least
\* the threshold; sorensen_dice_coef() is exactly that SDC.
C1_RestsOnMatch ==
    (iter.live /\ InUnitRange(iter.theta) /\ ~AtEnd) =>
        /\ InTriangle(iter.m_i, iter.m_j)
        /\ EndsNotStripped(iter.m_i, iter.m_j)
        /\ ~Less(WindowSDC(iter.m_i, iter.m_j, iter.m_bigrams), Threshold(iter.theta))
        /\ iter.m_sdc = WindowSDC(iter.m_i, iter.m_j, iter.m_bigrams)

C1_Witness ==
    /\ iter.live /\ InUnitRange(iter.theta) /\ ~AtEnd
    /\ incs >= 1
    /\ iter.m_i >= 2
    /\ m_strip_ixs # {}
    /\ Less(iter.m_sdc, One)

\* C2: for a non-empty query and a threshold in (0, 1], once the iterator
\* has reached the end it has rested exactly once on every cell of the
\* triangle whose ends are not stripped and whose SDC is at least the
\* threshold (so nothing the cardinality-ratio test skipped qualifies).
C2_EnumerationComplete ==
    (iter.live /\ InUnitRange(iter.theta) /\ iter.m_bigrams.m_size > 0 /\ AtEnd) =>
        /\ HistCells = Qualifying(iter.m_bigrams, iter.theta)
        /\ Len(hist) = Cardinality(HistCells)

\* C3: every ++ moves the iterator to a position strictly greater in (j, i)
\* order (operator <), the end position included, and never before the
\* cell (i + 1, j) at which the scan resumes.
C3_StrictlyAscending ==
    [][(iter.live /\ iter'.live /\ incs' = incs + 1) =>
          /\ IterLess(iter, iter')
          /\ ~IterLess(iter', [iter EXCEPT !.m_i = @ + 1])]_vars

C3_Witness ==
    /\ iter.live /\ AtEnd
    /\ incs >= 3
    /\ \E a, b \in 1..Len(hist) : a < b /\ hist[a].begin < hist[b].begin
    /\ \E a, b \in 1..Len(hist) : a < b /\ hist[a].begin = hist[b].begin

\* C4: whatever earlier queries have left in the cells above row 0, the
\* matches (begin, end, size, SDC) an iteration reports are, in order,
\* those the same query and threshold give on the same tokens with all
\* those cells empty: a prefix of them while under way, all of them at the
\* end.
C4_CacheIndependent ==
    iter.live =>
        LET ref == Matches(Fresh(Matcher), iter.m_bigrams, iter.theta)
        IN  /\ Len(hist) <= Len(ref)
            /\ hist = SubSeq(ref, 1, Len(hist))
            /\ AtEnd => Len(hist) = Len(ref)

\* an iteration that has just begun on its first cell, over cells of every
\* kind left by earlier iterations, with more than one match ahead
C4_Witness ==
    /\ iter.live /\ incs = 0 /\ ~AtEnd
    /\ iter.m_i = 0 /\ iter.m_j = 0
    /\ CellTypes = {"NONE", "SIZE", "BIGRAMS"}
    /\ Len(Matches(Fresh(Matcher), iter.m_bigrams, iter.theta)) >= 2

\* C5: for a threshold in (0, 1] an iterator that is not yet at the end has
\* been incremented fewer than N(N+1)/2 times: the end is reached after at
\* most N(N+1)/2 increments.
C5_EndWithinTriangle ==
    (iter.live /\ InUnitRange(iter.theta) /\ ~AtEnd) => incs < Triangle(N)

C5_Witness ==
    /\ iter.live /\ InUnitRange(iter.theta) /\ AtEnd
    /\ N >= 2
    /\ incs = Triangle(N)

C7_AboveOneNoMatch ==
    (iter.live /\ iter.theta[1] > iter.theta[2]) => AtEnd

C7_Witness ==
    /\ iter.live /\ iter.theta[1] > iter.theta[2]
    /\ N >= 2
    /\ \E k \in 0..(N - 1) :
          k \notin m_strip_ixs /\ Token(k) = iter.m_bigrams /\ Token(k).m_size > 0

\* C8: on a matcher without tokens, begin(Q, theta) equals end() for every
\* query and every threshold in (0, 1].
C8_EmptyMatcherNoMatch ==
    (iter.live /\ N = 0 /\ InUnitRange(iter.theta)) => AtEnd

C8_Witness ==
    iter.live /\ N = 0 /\ InUnitRange(iter.theta) /\ iter.m_bigrams.m_size > 0

\* C9: with an empty query and a threshold in (0, 1], begin(Q, theta) equals
\* end(), whatever the tokens (empty ones included).
C9_EmptyQueryNoMatch ==
    (iter.live /\ InUnitRange(iter.theta) /\ iter.m_bigrams.m_size = 0) => AtEnd

C9_Witness ==
    /\ iter.live /\ InUnitRange(iter.theta) /\ iter.m_bigrams.m_size = 0
    /\ \E k \in 0..(N - 1) : k \notin m_strip_ixs /\ Token(k).m_size = 0
    /\ \E k \in 0..(N - 1) : k \notin m_strip_ixs /\ Token(k).m_size > 0

\* C10: an iterator whose column index has reached N has row index 0 and so
\* equals end(); operator == looks at (i, j) only.
C10_ExhaustedEqualsEnd ==
    iter.live =>
        /\ iter.m_j <= N
        /\ (iter.m_j = N => (iter.m_i = 0 /\ IterEq(iter, End(Matcher))))

C10_Witness ==
    /\ iter.live /\ iter.m_j = N
    /\ incs >= 1
    /\ hist[Len(hist)].size >= 2
    /\ iter.m_bigrams # EmptyBigrams
    /\ iter.theta # <<0, 1>>

\* C11: after k appends, with reserve calls anywhere between them, size()
\* is k, the matrix has k rows and row r has k - r cells, so that cell
\* (i, j) exists exactly when i + j < k.
C11_MatrixShape ==
    /\ size(m_mx) = Len(log)
    /\ \A r \in 0..(Len(log) - 1) : Len(m_mx[r + 1]) = Len(log) - r
    /\ \A i, j \in 0..MaxTokens :
          (i < Len(m_mx) /\ j < Len(m_mx[i + 1])) <=> (i + j < Len(log))

C11_Witness ==
    /\ Len(log) = MaxTokens
    /\ m_cap.mx > MaxTokens
    /\ \E r \in 1..MaxTokens : m_cap.rows[r] = 1
    /\ \E r \in 1..MaxTokens : m_cap.rows[r] > MaxTokens

\* the cells of the matrix
Cells == {c \in (0..(N - 1)) \X (0..(N - 1)) : InTriangle(c[1], c[2])}

Cell(c) == m_mx[c[1] + 1][c[2] + 1]

\* profile p holds every bigram as often as the tokens j .. j+i together
IsWindowUnion(p, i, j) ==
    /\ p.m_size = WindowSize(i, j)
    /\ \A b \in AllBigrams : CountIn(p.m_impl, b) = WindowCount(i, j, b)
    /\ \A k \in 1..Len(p.m_impl) : p.m_impl[k][1] \in AllBigrams

\* C12: in every state reached by appends and queries, bigrams_size(i, j)
\* returns, for every cell (i, j), the sum of the sizes of the token profiles
\* j .. j+i, and every cell holding a size only holds that sum.
C12_SizeIsSum ==
    \A c \in Cells :
        /\ bigrams_size(m_mx, c[1], c[2]).result = WindowSize(c[1], c[2])
        /\ Cell(c).m_type = "SIZE" => Cell(c).m_value = WindowSize(c[1], c[2])

C12_Witness ==
    /\ \E c \in Cells : c[1] >= 2 /\ Cell(c).m_type = "SIZE" /\ Cell(c).m_value >= 5
    /\ \E c \in Cells : Cell(c).m_type = "NONE" /\ WindowSize(c[1], c[2]) > 0

\* C13: in every such state bigrams(i, j) returns, for every cell (i, j), the
\* multiset union (multiplicities added) of the token profiles j .. j+i, and
\* every cell holding a profile holds that union.
C13_ProfileIsUnion ==
    \A c \in Cells :
        /\ IsWindowUnion(bigrams(m_mx, c[1], c[2]).result, c[1], c[2])
        /\ Cell(c).m_type = "BIGRAMS" => IsWindowUnion(Cell(c).m_value, c[1], c[2])

C13_Witness ==
    /\ \E c \in Cells :
          /\ c[1] >= 2
          /\ Cell(c).m_type = "BIGRAMS"
          /\ \E k \in 1..Len(Cell(c).m_value.m_impl) : Cell(c).m_value.m_impl[k][2] >= 2
    /\ \E c \in Cells : c[1] >= 1 /\ Cell(c).m_type = "SIZE"

\* cell new is cell old or a later stage of it
CellForward(old, new) ==
    CASE old.m_type = "NONE" -> TRUE
      [] old.m_type = "SIZE" -> new = old \/ new.m_type = "BIGRAMS"
      [] OTHER -> new = old

\* every cell of matrix old is there in matrix new, as it was or further on
Forward(old, new) ==
    \A r \in 1..Len(old) : \A c \in 1..Len(old[r]) :
        /\ r <= Len(new) /\ c <= Len(new[r])
        /\ CellForward(old[r][c], new[r][c])

\* C14: every step (append, begin, ++) and every call of bigrams_size or
\* bigrams leaves each cell as it was or moves it from empty to size, from
\* empty to profile or from size to profile; a cell holding a profile
\* keeps it, a cell holding a size keeps its number.
C14_CellsMoveForward ==
    /\ [][Forward(m_mx, m_mx')]_vars
    /\ [](\A c \in Cells :
              /\ Forward(m_mx, bigrams_size(m_mx, c[1], c[2]).mx)
              /\ Forward(m_mx, bigrams(m_mx, c[1], c[2]).mx))

\* a matcher at rest that can still grow, with a cell holding a size that a
\* call of bigrams turns into a profile
C14_Witness ==
    /\ ~iter.live
    /\ N < MaxTokens
    /\ \E c \in Cells :
          /\ c[1] >= 1
          /\ Cell(c).m_type = "SIZE"
          /\ bigrams(m_mx, c[1], c[2]).mx[c[1] + 1][c[2] + 1].m_type = "BIGRAMS"

\* C15: a cell reports the same size before and after its profile is
\* stored: on every step, and on every call of bigrams, a cell that held a
\* size or a profile has the same size() afterwards.
SameSizes(old, new) ==
    \A r \in 1..Len(old) : \A c \in 1..Len(old[r]) :
        old[r][c].m_type # "NONE" => CellSize(new[r][c]) = CellSize(old[r][c])

C15_SizeKept ==
    /\ [][SameSizes(m_mx, m_mx')]_vars
    /\ [](\A c \in Cells : SameSizes(m_mx, bigrams(m_mx, c[1], c[2]).mx))

C15_Witness ==
    \E c \in Cells :
        /\ Cell(c).m_type = "SIZE"
        /\ Cell(c).m_value >= 5
        /\ bigrams(m_mx, c[1], c[2]).mx[c[1] + 1][c[2] + 1].m_type = "BIGRAMS"
        /\ Len(bigrams(m_mx, c[1], c[2]).result.m_impl) < Cell(c).m_value

\* C16: a call of bigrams_size stores no profile: every cell is afterwards
\* as it was, or was empty and holds a size.
SizesOnly(old, new) ==
    /\ Len(new) = Len(old)
    /\ \A r \in 1..Len(old) :
          /\ Len(new[r]) = Len(old[r])
          /\ \A c \in 1..Len(old[r]) :
                \/ new[r][c] = old[r][c]
                \/ old[r][c].m_type = "NONE" /\ new[r][c].m_type = "SIZE"

C16_SizeQueryFrame ==
    \A c \in Cells : SizesOnly(m_mx, bigrams_size(m_mx, c[1], c[2]).mx)

\* a size query that fills more than the cell asked for
C16_Witness ==
    \E c \in Cells :
        /\ c[1] >= 2
        /\ Cell(c).m_type = "NONE"
        /\ \E d \in Cells :
              /\ d # c
              /\ Cell(d).m_type = "NONE"
              /\ bigrams_size(m_mx, c[1], c[2]).mx[d[1] + 1][d[2] + 1].m_type = "SIZE"

\* a second matcher, given the appends of lg by push_back only: for an
\* emplace_back(str, strip) of lg, push_back(bigrams(str), strip)
RECURSIVE PushedOnly(_)
PushedOnly(lg) ==
    IF lg = <<>> THEN NewMatcher
    ELSE push_back(PushedOnly(SubSeq(lg, 1, Len(lg) - 1)),
                   IF lg[Len(lg)].op = "emplace_back"
                   THEN Bigrams(lg[Len(lg)].arg) ELSE lg[Len(lg)].arg,
                   lg[Len(lg)].strip)

\* a second matcher, given the appends of lg as they were made, and no
\* reserve call
RECURSIVE Unreserved(_)
Unreserved(lg) ==
    IF lg = <<>> THEN NewMatcher
    ELSE IF lg[Len(lg)].op = "emplace_back"
         THEN emplace_back(Unreserved(SubSeq(lg, 1, Len(lg) - 1)),
                           lg[Len(lg)].arg, lg[Len(lg)].strip)
         ELSE push_back(Unreserved(SubSeq(lg, 1, Len(lg) - 1)),
                        lg[Len(lg)].arg, lg[Len(lg)].strip)

\* the matcher and matcher m are alike in all a caller can see
SameToCaller(m) ==
    /\ size(m_mx) = size(m.m_mx)
    /\ m_strip_ixs = m.m_strip_ixs
    /\ \A r \in 1..Len(m_mx) : Len(m_mx[r]) = Len(m.m_mx[r])
    /\ \A c \in 1..size(m_mx) : m_mx[1][c] = m.m_mx[1][c]
    /\ \A q \in Queries, t \in Thetas : Matches(Matcher, q, t) = Matches(m, q, t)

\* C17: a matcher filled by emplace_back(str, strip) and push_back calls and
\* one filled by push_back alone, with bigrams(str) for each str, have the
\* same size, strip set and row-0 profiles and give the same matches for
\* every query and threshold.
C17_EmplaceIsPush == SameToCaller(PushedOnly(log))

C17_Witness ==
    /\ Len(log) = MaxTokens
    /\ \E k \in 1..Len(log) :
          log[k].op = "emplace_back" /\ log[k].strip /\ Len(log[k].arg) >= 2
    /\ \E k \in 1..Len(log) : log[k].op = "emplace_back" /\ ~log[k].strip
    /\ \E k \in 1..Len(log) : log[k].op = "push_back"
    /\ \E q \in Queries, t \in Thetas : Matches(Matcher, q, t) # <<>>

\* C18: with reserve(len) called anywhere between the appends, for len
\* below, at and above the number of tokens, size(), the shape of the
\* matrix, the strip set, the row-0 profiles and the matches of every query
\* and threshold are those of a matcher given the same appends and no
\* reserve.
C18_ReserveUnseen == SameToCaller(Unreserved(log))

C18_Witness ==
    /\ Len(log) = MaxTokens
    /\ m_cap # Unreserved(log).m_cap
    /\ \E r \in 1..MaxTokens : m_cap.rows[r] > Unreserved(log).m_cap.rows[r]
    /\ m_strip_ixs # {}
    /\ \E q \in Queries, t \in Thetas : Len(Matches(Matcher, q, t)) >= 2

\* the appends of the unit test were made the way the test makes them
HappyAsTested ==
    /\ Len(log) = Len(HappyTokens)
    /\ \A k \in 1..Len(log) :
          log[k].op = IF k \in {4, 5, 6, 7} THEN "push_back" ELSE "emplace_back"

\* C19: in the unit test's scenario (nine tokens, strip flags F,T,T,F,T,F,T,
\* F,F, query unite("Helo", "  ", "wordl"), threshold 0.7) begin gives a
\* match that is not end(), with begin() = 3, end() = 6, size() = 3 and a
\* coefficient above 0.7, and after one ++ the iterator equals end().
C19_HappyPath ==
    /\ (iter.live /\ incs = 0) =>
          /\ ~AtEnd
          /\ Match(iter).begin = 3
          /\ Match(iter).end = 6
          /\ Match(iter).size = 3
          /\ Less(Literal(HappyTheta), iter.m_sdc)
    /\ (iter.live /\ incs = 1) => AtEnd
    /\ incs <= 1

C19_Witness ==
    /\ HappyAsTested
    /\ m_strip_ixs = {1, 2, 4, 6}
    /\ iter.live /\ incs = 1 /\ AtEnd
    /\ hist = <<[begin |-> 3, end |-> 6, size |-> 3,
                 sdc |-> SdcQuotient(6, 17)]>>

\* the number of places k at which str has the bigram b: str[k], str[k+1]
Occurrences(str, b) ==
    Cardinality({k \in 1..(Len(str) - 1) : <<str[k], str[k + 1]>> = b})

\* max(0, |str| - 1)
Adjacent(str) == IF Len(str) > 1 THEN Len(str) - 1 ELSE 0

\* occurrences of b in a profile of each representation
OrderedCount(impl, b) == Cardinality({k \in 1..Len(impl) : impl[k] = b})

UnorderedCount(impl, b) == IF b \in DOMAIN impl THEN impl[b] ELSE 0

\* C20: the profile built from a string str, in each of the three
\* representations, has size max(0, |str| - 1) and holds every bigram as
\* many times as str has it at adjacent positions; a string of fewer than
\* two characters gives the empty profile.
C20_ProfileOfString ==
    /\ "counted" \in profs.built =>
          /\ profs.counted.m_size = Adjacent(profs.str)
          /\ \A b \in AllBigrams :
                CountIn(profs.counted.m_impl, b) = Occurrences(profs.str, b)
          /\ Len(profs.str) < 2 => profs.counted = EmptyBigrams
    /\ "ordered" \in profs.built =>
          /\ OrderedSize(profs.ordered) = Adjacent(profs.str)
          /\ \A b \in AllBigrams :
                OrderedCount(profs.ordered, b) = Occurrences(profs.str, b)
          /\ Len(profs.str) < 2 => profs.ordered = <<>>
    /\ "unordered" \in profs.built =>
          /\ UnorderedSize(profs.unordered) = Adjacent(profs.str)
          /\ \A b \in AllBigrams :
                UnorderedCount(profs.unordered, b) = Occurrences(profs.str, b)
          /\ DOMAIN profs.unordered \subseteq AllBigrams
          /\ Len(profs.str) < 2 => DOMAIN profs.unordered = {}

C20_Witness ==
    /\ profs.built = {"counted", "ordered", "unordered"}
    /\ Len(profs.str) = MaxStrLen
    /\ \E b \in AllBigrams : Occurrences(profs.str, b) >= 2
    /\ \E b \in AllBigrams : Occurrences(profs.str, b) = 1
    /\ profs.counted.m_size = MaxStrLen - 1

\* the profiles in register r
Reg(r) == regs.reg[r]

\* r1 += r2 on the counted profiles of two registers; with r1 = r2 the
\* profile is united into itself
UnionInPlace(r1, r2) ==
    IF r1 = r2 THEN PlusEqSelf(Reg(r1).counted)
    ELSE PlusEq(Reg(r1).counted, Reg(r2).counted)

\* C21: for all profiles P and Q, empty ones included, P += Q and P + Q have
\* size(P) + size(Q), in each representation.
C21_UnionSizeAdds ==
    \A r1 \in RegNames, r2 \in RegNames :
        /\ UnionInPlace(r1, r2).m_size
              = Reg(r1).counted.m_size + Reg(r2).counted.m_size
        /\ Plus(Reg(r1).counted, Reg(r2).counted).m_size
              = Reg(r1).counted.m_size + Reg(r2).counted.m_size
        /\ OrderedSize(OrderedPlus(Reg(r1).ordered, Reg(r2).ordered))
              = OrderedSize(Reg(r1).ordered) + OrderedSize(Reg(r2).ordered)
        /\ UnorderedSize(UnorderedPlus(Reg(r1).unordered, Reg(r2).unordered))
              = UnorderedSize(Reg(r1).unordered) + UnorderedSize(Reg(r2).unordered)
        /\ r1 # r2 =>
              /\ OrderedSize(OrderedPlusEq(Reg(r1).ordered, Reg(r2).ordered))
                    = OrderedSize(Reg(r1).ordered) + OrderedSize(Reg(r2).ordered)
              /\ UnorderedSize(UnorderedPlusEq(Reg(r1).unordered, Reg(r2).unordered))
                    = UnorderedSize(Reg(r1).unordered)
                      + UnorderedSize(Reg(r2).unordered)

\* number of entries of the list impl that hold the bigram b
Entries(impl, b) == Cardinality({k \in 1..Len(impl) : impl[k][1] = b})

\* the counted profile u holds what the counted profiles p and q hold
\* together: every bigram with the sum of its counts, in one entry, and no
\* other bigram
CountsAdded(u, p, q) ==
    /\ \A b \in AllBigrams :
          /\ CountIn(u.m_impl, b) = CountIn(p.m_impl, b) + CountIn(q.m_impl, b)
          /\ Entries(u.m_impl, b)
                = IF CountIn(p.m_impl, b) + CountIn(q.m_impl, b) > 0 THEN 1 ELSE 0
    /\ \A k \in 1..Len(u.m_impl) : u.m_impl[k][1] \in AllBigrams

\* C22: for counted profiles P and Q and every bigram b the count of b in
\* P += Q and in unite(P, Q) is count_P(b) + count_Q(b), b has one entry, and
\* no other bigram appears; profile("abcd") united with profile("bcd")
\* iterates as ab:1, bc:2, cd:2.
C22_CountsAdd ==
    /\ \A r1 \in RegNames, r2 \in RegNames :
          /\ CountsAdded(UnionInPlace(r1, r2), Reg(r1).counted, Reg(r2).counted)
          /\ CountsAdded(Plus(Reg(r1).counted, Reg(r2).counted),
                         Reg(r1).counted, Reg(r2).counted)
    /\ Plus(Bigrams(<<1, 2, 3, 4>>), Bigrams(<<2, 3, 4>>)).m_impl
          = << <<<<1, 2>>, 1>>, <<<<2, 3>>, 2>>, <<<<3, 4>>, 2>> >>
    /\ PlusEq(Bigrams(<<1, 2, 3, 4>>), Bigrams(<<2, 3, 4>>)).m_impl
          = << <<<<1, 2>>, 1>>, <<<<2, 3>>, 2>>, <<<<3, 4>>, 2>> >>

C22_Witness ==
    /\ regs.unions >= 1
    /\ \E r1 \in RegNames, r2 \in RegNames :
          /\ r1 # r2
          /\ \E b \in AllBigrams :
                /\ CountIn(Reg(r1).counted.m_impl, b) >= 2
                /\ CountIn(Reg(r2).counted.m_impl, b) >= 1
                /\ CountIn(Reg(r1).counted.m_impl, b) # CountIn(Reg(r2).counted.m_impl, b)
          /\ \E b \in AllBigrams :
                /\ CountIn(Reg(r1).counted.m_impl, b) = 0
                /\ CountIn(Reg(r2).counted.m_impl, b) >= 1
          /\ \E b \in AllBigrams :
                /\ CountIn(Reg(r1).counted.m_impl, b) >= 1
                /\ CountIn(Reg(r2).counted.m_impl, b) = 0

\* the list impl is in strictly increasing order of bigram, every count >= 1
StrictlySorted(impl) ==
    /\ \A k \in 1..(Len(impl) - 1) : BigramLess(impl[k][1], impl[k + 1][1])
    /\ \A k \in 1..Len(impl) : impl[k][2] >= 1

\* every profile constructed from a string of up to MaxStrLen characters
ConstructedSorted == \A str \in Strings : StrictlySorted(Bigrams(str).m_impl)

\* C23: the list of a counted profile, after construction from a string and
\* after any sequence of unions, holds each distinct bigram once, in
\* strictly increasing order of (c1, c2), with every count >= 1.
C23_ListSorted ==
    /\ ConstructedSorted
    /\ \A r \in RegNames : StrictlySorted(Reg(r).counted.m_impl)
    /\ \A r1 \in RegNames, r2 \in RegNames :
          /\ StrictlySorted(UnionInPlace(r1, r2).m_impl)
          /\ StrictlySorted(Plus(Reg(r1).counted, Reg(r2).counted).m_impl)

C23_Witness ==
    /\ regs.unions = MaxUnions
    /\ \E r \in RegNames :
          /\ Len(Reg(r).counted.m_impl) >= 4
          /\ \E k \in 1..Len(Reg(r).counted.m_impl) : Reg(r).counted.m_impl[k][2] >= 3
          /\ \E k \in 1..Len(Reg(r).counted.m_impl) : Reg(r).counted.m_impl[k][2] = 1

\* sum over all bigrams b of min(count1[b], count2[b])
SharedCount(count1, count2) ==
    SumOver(AllBigrams, [b \in AllBigrams |-> Min(count1[b], count2[b])])

\* the count of every bigram in a counted profile, in an ordered multiset
CountedCounts(p) == [b \in AllBigrams |-> CountIn(p.m_impl, b)]

OrderedCounts(impl) == [b \in AllBigrams |-> OrderedCount(impl, b)]

\* C24: intersect_size(P, Q) is the sum over all bigrams b of
\* min(count_P(b), count_Q(b)), is the same with the arguments exchanged and
\* is at most min(size(P), size(Q)); counted profiles and ordered multisets.
C24_IntersectSize ==
    \A r1 \in RegNames, r2 \in RegNames :
        /\ intersect_size(Reg(r1).counted, Reg(r2).counted)
              = SharedCount(CountedCounts(Reg(r1).counted), CountedCounts(Reg(r2).counted))
        /\ intersect_size(Reg(r1).counted, Reg(r2).counted)
              = intersect_size(Reg(r2).counted, Reg(r1).counted)
        /\ intersect_size(Reg(r1).counted, Reg(r2).counted)
              <= Min(Reg(r1).counted.m_size, Reg(r2).counted.m_size)
        /\ OrderedIntersectSize(Reg(r1).ordered, Reg(r2).ordered)
              = SharedCount(OrderedCounts(Reg(r1).ordered), OrderedCounts(Reg(r2).ordered))
        /\ OrderedIntersectSize(Reg(r1).ordered, Reg(r2).ordered)
              = OrderedIntersectSize(Reg(r2).ordered, Reg(r1).ordered)
        /\ OrderedIntersectSize(Reg(r1).ordered, Reg(r2).ordered)
              <= Min(OrderedSize(Reg(r1).ordered), OrderedSize(Reg(r2).ordered))

C24_Witness ==
    /\ regs.unions >= 1
    /\ \E r1 \in RegNames, r2 \in RegNames :
          /\ intersect_size(Reg(r1).counted, Reg(r2).counted) >= 3
          /\ intersect_size(Reg(r1).counted, Reg(r2).counted)
                < Min(Reg(r1).counted.m_size, Reg(r2).counted.m_size)
          /\ \E b \in AllBigrams :
                /\ CountIn(Reg(r1).counted.m_impl, b) >= 2
                /\ CountIn(Reg(r2).counted.m_impl, b) >= 1
                /\ CountIn(Reg(r1).counted.m_impl, b) > CountIn(Reg(r2).counted.m_impl, b)
          /\ \E b \in AllBigrams :
                /\ CountIn(Reg(r1).counted.m_impl, b) >= 1
                /\ CountIn(Reg(r2).counted.m_impl, b) = 0

\* the doubles 2 * shared / total for the sizes the profiles reach
DiceTable ==
    [shared \in 0..MaxProfileSize, total \in 0..(2 * MaxProfileSize) |->
        Div(FromInt(2 * shared), FromInt(total))]

\* the double 2 * shared / (size1 + size2), or 0.0 when nothing is shared
DiceOf(shared, size1, size2) ==
    IF shared # 0 THEN DiceTable[shared, size1 + size2] ELSE Zero(FALSE)

\* the double x is a number in 0 .. 1
InUnit(x) == x.cls # "nan" /\ ~Less(x, Zero(FALSE)) /\ ~Less(One, x)

\* the coefficient sdc of two profiles of sizes size1, size2 sharing shared
\* bigrams is as C25 says
DiceAsStated(sdc, shared, size1, size2) ==
    /\ sdc = DiceOf(shared, size1, size2)
    /\ InUnit(sdc)
    /\ (size1 = 0 \/ size2 = 0) => sdc = Zero(FALSE)

\* what the unit tests assert of "abcd" and "bcd": sdc == 0.8; and the
\* coefficient of two empty profiles
DiceAsTested ==
    /\ sorensen_dice_coef(Bigrams(<<1, 2, 3, 4>>), Bigrams(<<2, 3, 4>>))
          = Literal(<<4, 5>>)
    /\ OrderedSdc(bigram_multiset(<<1, 2, 3, 4>>), bigram_multiset(<<2, 3, 4>>))
          = Literal(<<4, 5>>)
    /\ sorensen_dice_coef(EmptyBigrams, EmptyBigrams) = Zero(FALSE)
    /\ OrderedSdc(<<>>, <<>>) = Zero(FALSE)

\* C25: SDC(P, Q) is 2 * intersect_size(P, Q) / (size(P) + size(Q)) when the
\* profiles share a bigram and 0 otherwise; it lies in 0 .. 1, is 0 when
\* either profile is empty, both empty included, and is 4/5 for the
\* profiles of "abcd" and "bcd"; counted profiles and ordered multisets.
C25_DiceCoefficient ==
    /\ \A r1 \in RegNames, r2 \in RegNames :
          /\ DiceAsStated(sorensen_dice_coef(Reg(r1).counted, Reg(r2).counted),
                          SharedCount(CountedCounts(Reg(r1).counted),
                                      CountedCounts(Reg(r2).counted)),
                          Reg(r1).counted.m_size, Reg(r2).counted.m_size)
          /\ DiceAsStated(OrderedSdc(Reg(r1).ordered, Reg(r2).ordered),
                          SharedCount(OrderedCounts(Reg(r1).ordered),
                                      OrderedCounts(Reg(r2).ordered)),
                          OrderedSize(Reg(r1).ordered), OrderedSize(Reg(r2).ordered))
    /\ DiceAsTested

C25_Witness ==
    /\ regs.unions >= 1
    /\ \E r1 \in RegNames, r2 \in RegNames :
          /\ Less(Zero(FALSE), sorensen_dice_coef(Reg(r1).counted, Reg(r2).counted))
          /\ Less(sorensen_dice_coef(Reg(r1).counted, Reg(r2).counted), One)
          /\ Reg(r1).counted.m_size # Reg(r2).counted.m_size
    /\ \E r \in RegNames : Reg(r).counted.m_size = 0

\* C26: for every profile P, intersect_size(P, P) = size(P), and
\* SDC(P, P) = 1 when size(P) > 0; in each representation, the unordered
\* multiset in whatever order it iterates.
C26_SelfSimilar ==
    \A r \in RegNames :
        /\ intersect_size(Reg(r).counted, Reg(r).counted) = Reg(r).counted.m_size
        /\ Reg(r).counted.m_size > 0 =>
              sorensen_dice_coef(Reg(r).counted, Reg(r).counted) = One
        /\ OrderedIntersectSize(Reg(r).ordered, Reg(r).ordered)
              = OrderedSize(Reg(r).ordered)
        /\ OrderedSize(Reg(r).ordered) > 0 =>
              OrderedSdc(Reg(r).ordered, Reg(r).ordered) = One
        /\ \A range \in IterationOrders(Reg(r).unordered) :
              /\ UnorderedIntersectSize(range, range) = UnorderedSize(Reg(r).unordered)
              /\ UnorderedSize(Reg(r).unordered) > 0 =>
                    MultisetSdc(UnorderedIntersectSize(range, range),
                                UnorderedSize(Reg(r).unordered),
                                UnorderedSize(Reg(r).unordered)) = One

C26_Witness ==
    /\ regs.unions >= 1
    /\ \E r \in RegNames :
          /\ Len(Reg(r).counted.m_impl) >= 3
          /\ Reg(r).counted.m_size > Len(Reg(r).counted.m_impl)
          /\ intersect_size(Reg(r).counted, Reg(r).counted) = Reg(r).counted.m_size
          /\ Cardinality(IterationOrders(Reg(r).unordered)) >= 6
    /\ \E r \in RegNames : Reg(r).counted.m_size = 0

\* C27: the counted profile and the ordered multiset built from the same
\* strings by the same unions agree on size; for every two such pairs,
\* intersect_size and SDC agree as well.
C27_CountedAsOrdered ==
    /\ \A r \in RegNames :
          /\ Reg(r).counted.m_size = OrderedSize(Reg(r).ordered)
          /\ CountedCounts(Reg(r).counted) = OrderedCounts(Reg(r).ordered)
    /\ \A r1 \in RegNames, r2 \in RegNames :
          /\ intersect_size(Reg(r1).counted, Reg(r2).counted)
                = OrderedIntersectSize(Reg(r1).ordered, Reg(r2).ordered)
          /\ sorensen_dice_coef(Reg(r1).counted, Reg(r2).counted)
                = OrderedSdc(Reg(r1).ordered, Reg(r2).ordered)

C27_Witness ==
    /\ regs.unions = MaxUnions
    /\ \E r1 \in RegNames, r2 \in RegNames :
          /\ r1 # r2
          /\ OrderedIntersectSize(Reg(r1).ordered, Reg(r2).ordered) >= 3
          /\ OrderedSize(Reg(r1).ordered) > OrderedSize(Reg(r2).ordered)
          /\ OrderedSize(Reg(r2).ordered)
                > OrderedIntersectSize(Reg(r1).ordered, Reg(r2).ordered)
          /\ Less(OrderedSdc(Reg(r1).ordered, Reg(r2).ordered), One)

UnorderedCounts(impl) == [b \in AllBigrams |-> UnorderedCount(impl, b)]

\* C28: for unordered multisets P and Q, intersect_size(P, Q) is the sum
\* over all bigrams b of min(count_P(b), count_Q(b)), in whatever order the
\* containers iterate their elements.
C28_UnorderedIntersect ==
    regs.seen.r1 # "" =>
        regs.seen.size = SharedCount(UnorderedCounts(Reg(regs.seen.r1).unordered),
                                     UnorderedCounts(Reg(regs.seen.r2).unordered))

\* the contents of a profile of registers: size and count of every bigram,
\* in the three representations
Contents(p) ==
    [counted |-> <<p.counted.m_size, CountedCounts(p.counted)>>,
     ordered |-> <<OrderedSize(p.ordered), OrderedCounts(p.ordered)>>,
     unordered |-> <<UnorderedSize(p.unordered), UnorderedCounts(p.unordered)>>]

\* operator + and unite on the three representations at once
PlusAll(p, q) ==
    [counted |-> Plus(p.counted, q.counted),
     ordered |-> OrderedPlus(p.ordered, q.ordered),
     unordered |-> UnorderedPlus(p.unordered, q.unordered)]

UniteAll3(p, q, r) ==
    [counted |-> Unite3(p.counted, q.counted, r.counted),
     ordered |-> OrderedUnite3(p.ordered, q.ordered, r.ordered),
     unordered |-> UnorderedUnite3(p.unordered, q.unordered, r.unordered)]

\* C29: union is commutative and associative on contents: P + Q holds the
\* same counts as Q + P, (P + Q) + R the same as P + (Q + R), and
\* unite(P, Q, R) the same as unite of the three in any other order;
\* counted profiles, ordered and unordered multisets. operator + and unite
\* work on copies, so an argument given twice is two profiles of the same
\* contents: the three profiles are three registers, which hold the same
\* contents in some states and different ones in others.
C29_UnionCommAssoc ==
    /\ \A r1 \in RegNames, r2 \in RegNames :
          Contents(PlusAll(Reg(r1), Reg(r2))) = Contents(PlusAll(Reg(r2), Reg(r1)))
    /\ \A r1 \in RegNames : \A r2 \in RegNames \ {r1} : \A r3 \in RegNames \ {r1, r2} :
          LET united == Contents(UniteAll3(Reg(r1), Reg(r2), Reg(r3)))
          IN  /\ Contents(PlusAll(PlusAll(Reg(r1), Reg(r2)), Reg(r3))) = united
              /\ Contents(PlusAll(Reg(r1), PlusAll(Reg(r2), Reg(r3)))) = united
              /\ Contents(UniteAll3(Reg(r2), Reg(r1), Reg(r3))) = united
              /\ Contents(UniteAll3(Reg(r1), Reg(r3), Reg(r2))) = united

\* three profiles, each grown by a union or not, no two with the same
\* contents, two of them sharing a bigram, one holding a bigram twice
C29_Witness ==
    /\ regs.unions = MaxUnions
    /\ \A r1 \in RegNames, r2 \in RegNames :
          r1 # r2 => Contents(Reg(r1)) # Contents(Reg(r2))
    /\ \A r \in RegNames : Reg(r).counted.m_size > 0
    /\ \E r1 \in RegNames, r2 \in RegNames :
          r1 # r2 /\ intersect_size(Reg(r1).counted, Reg(r2).counted) > 0
    /\ \E r \in RegNames, b \in AllBigrams : CountedCounts(Reg(r).counted)[b] > 1
    /\ Contents(UniteAll3(Reg("P"), Reg("Q"), Reg("R")))["counted"][1]
          = Reg("P").counted.m_size + Reg("Q").counted.m_size
            + Reg("R").counted.m_size

\* the default-constructed profile in the three representations
EmptyProfiles == [counted |-> EmptyBigrams, ordered |-> <<>>, unordered |-> <<>>]

\* operator += on the three representations at once
PlusEqAll(self, other) ==
    [counted |-> PlusEq(self.counted, other.counted),
     ordered |-> OrderedPlusEq(self.ordered, other.ordered),
     unordered |-> UnorderedPlusEq(self.unordered, other.unordered)]

\* C30: the empty profile is the identity of union: empty += P has the
\* same bigram counts and size as P, and P += empty leaves P unchanged;
\* counted profiles, ordered and unordered multisets.
C30_EmptyIdentity ==
    \A r \in RegNames :
        /\ Contents(PlusEqAll(EmptyProfiles, Reg(r))) = Contents(Reg(r))
        /\ PlusEqAll(Reg(r), EmptyProfiles) = Reg(r)

\* a profile that is not empty, grown by unions, holding a bigram twice,
\* next to a register that is itself empty
C30_Witness ==
    /\ regs.unions > 0
    /\ \E r1 \in RegNames, r2 \in RegNames :
          /\ Reg(r1) = EmptyProfiles
          /\ Reg(r2).counted.m_size > MaxStringSize
          /\ \E b \in AllBigrams : OrderedCounts(Reg(r2).ordered)[b] > 1
          /\ Contents(PlusEqAll(Reg(r1), Reg(r2))) = Contents(Reg(r2))
          /\ PlusEqAll(Reg(r2), Reg(r1)) = Reg(r2)

\* C31: union is total, the united object being the same as the one united
\* into included: operator += returns, and the object then holds every
\* bigram as often as the two operands did together. Counted profiles:
\* p += p holds every count twice. std::multiset: the range-for over a
\* profile of n elements is at end() once it has inserted n elements, and
\* the object the operator returned holds every bigram twice as often as
\* the call found it.
C31_UnionTotal ==
    /\ \A r \in RegNames :
          CountedCounts(PlusEqSelf(Reg(r).counted))
             = [b \in AllBigrams |-> 2 * CountedCounts(Reg(r).counted)[b]]
    /\ regs.loop.r # "" =>
          /\ regs.loop.inserted = OrderedSize(regs.loop.from) =>
                regs.loop.it = OrderedSize(Reg(regs.loop.r).ordered) + 1
          /\ regs.loop.returned =>
                OrderedCounts(Reg(regs.loop.r).ordered)
                   = [b \in AllBigrams |-> 2 * OrderedCounts(regs.loop.from)[b]]

\* the sum of the counts the list holds
RECURSIVE CountSum(_)
CountSum(impl) == IF impl = <<>> THEN 0 ELSE Head(impl)[2] + CountSum(Tail(impl))

\* C40: the stored m_size of a counted profile, which size() returns,
\* equals the sum of the counts held in its list, after construction and
\* after any sequence of += operations, the union of a profile into itself
\* included.
C40_CachedSize ==
    \A r \in RegNames : Reg(r).counted.m_size = CountSum(Reg(r).counted.m_impl)

\* the profile the k-th append supplied
Supplied(k) == IF log[k].op = "push_back" THEN log[k].arg ELSE Bigrams(log[k].arg)

\* C32: row 0 is always fully materialised: every cell (0, j), j < N, holds
\* a profile, the one the j-th append supplied; the descent of bigrams_size
\* and of bigrams from any cell therefore ends at row 0 at the latest and
\* never calls sub_ix with i = 0.
C32_RowZeroFull ==
    /\ N = Len(log)
    /\ \A j \in 0..(N - 1) : m_mx[1][j + 1] = BigramsCell(Supplied(j + 1))
    /\ \A c \in Cells :
          /\ \A d \in SizeSplits(m_mx, c[1], c[2]) : d[1] >= 1
          /\ \A d \in BigramsSplits(m_mx, c[1], c[2]) : d[1] >= 1

\* a full matcher, appended to by push_back and by emplace_back, queried
\* since, with an empty cell whose descent goes down to row 1
C32_Witness ==
    /\ N = MaxTokens
    /\ \E k \in 1..N : log[k].op = "push_back" /\ log[k].arg.m_size > 0
    /\ \E k \in 1..N : log[k].op = "emplace_back" /\ Len(log[k].arg) > 1
    /\ \E c \in Cells : c[1] >= 1 /\ Cell(c).m_type = "BIGRAMS"
    /\ \E c \in Cells :
          /\ Cell(c).m_type = "NONE"
          /\ \E d \in SizeSplits(m_mx, c[1], c[2]) : d # c /\ d[1] = 1
          /\ Cardinality(BigramsSplits(m_mx, c[1], c[2])) >= 2

\* the tokens of the window of cell (i, j)
Window(i, j) == j..(j + i)

\* C33: the split is a partition into smaller cells of the triangle: for
\* every cell (i, j) with i >= 1, sub_ix gives (i1, j1) = (i / 2, j) and
\* (i2, j2) = (i - i / 2 - 1, j + i / 2 + 1), both in rows below i and
\* inside the triangle, and their windows of tokens are adjacent, disjoint
\* and together the window of (i, j).
C33_SplitPartitions ==
    \A c \in Cells :
        c[1] >= 1 =>
            LET i == c[1]
                j == c[2]
                s == sub_ix(i, j)
            IN  /\ s.i1 = i \div 2 /\ s.j1 = j
                /\ s.i2 = i - (i \div 2) - 1 /\ s.j2 = j + (i \div 2) + 1
                /\ 0 <= s.i1 /\ s.i1 < i
                /\ 0 <= s.i2 /\ s.i2 < i
                /\ s.i1 + s.j1 < N /\ s.i2 + s.j2 < N
                /\ s.j2 = s.j1 + s.i1 + 1
                /\ Window(s.i1, s.j1) \cap Window(s.i2, s.j2) = {}
                /\ Window(s.i1, s.j1) \cup Window(s.i2, s.j2) = Window(i, j)

\* the nine tokens of the unit test appended: windows of every length up
\* to nine, split in equal halves (odd i) and in unequal ones (even i)
C33_Witness ==
    /\ N = Len(HappyTokens)
    /\ \E c \in Cells : c[1] >= 3 /\ sub_ix(c[1], c[2]).i1 = sub_ix(c[1], c[2]).i2
    /\ \E c \in Cells :
          /\ c[1] > 1 /\ c[2] > 0
          /\ sub_ix(c[1], c[2]).i1 > sub_ix(c[1], c[2]).i2
          /\ sub_ix(c[1], c[2]).i2 > 0

\* next_match at cell (i, j) with query q and threshold theta: the test
\* that ends the inner loop by break (window not shorter than the query,
\* ratio above the bound)
Breaks(i, j, q, theta) ==
    LET r == CardRatio(bigrams_size(m_mx, i, j).result, q.m_size)
    IN  ~r.subseq_short /\ TooSmall(r.card_ratio, CardRatioThreshold(theta))

\* C34: the monotonicity the pruning break rests on: bigrams_size(i + 1, j)
\* is at least bigrams_size(i, j) wherever both cells exist; and once the
\* window at (i, j) is no smaller than the query and its ratio exceeds
\* 2 / theta - 1, so does every longer window (i', j), i' > i.
C34_PruningMonotone ==
    /\ \A c \in Cells :
          c[1] + 1 + c[2] < N =>
              bigrams_size(m_mx, c[1] + 1, c[2]).result
                 >= bigrams_size(m_mx, c[1], c[2]).result
    /\ \A q \in Queries, theta \in Thetas :
          \A c \in Cells :
              Breaks(c[1], c[2], q, theta) =>
                  \A k \in (c[1] + 1)..(N - 1 - c[2]) : Breaks(k, c[2], q, theta)

\* a window at which a query with a threshold in (0, 1] breaks off, below
\* a longer and larger one; a window at which the query does not break off
\* but does one token on
C34_Witness ==
    /\ N = MaxTokens
    /\ \E c \in Cells :
          /\ c[1] + 1 + c[2] < N
          /\ bigrams_size(m_mx, c[1] + 1, c[2]).result
                > bigrams_size(m_mx, c[1], c[2]).result
          /\ \E q \in Queries, theta \in Thetas :
                InUnitRange(theta) /\ q.m_size > 0 /\ Breaks(c[1], c[2], q, theta)
    /\ \E c \in Cells :
          /\ c[1] + 1 + c[2] < N
          /\ \E q \in Queries, theta \in Thetas :
                /\ InUnitRange(theta) /\ q.m_size > 0
                /\ ~Breaks(c[1], c[2], q, theta)
                /\ Breaks(c[1] + 1, c[2], q, theta)

\* C35: the accessors of a reported match describe its window: with the
\* iterator resting at cell (i, j) short of the end, begin() = j,
\* size() = i + 1 >= 1, end() = begin() + size() = j + i + 1 <= N; the cell
\* holds its profile already, and dereferencing returns that profile, the
\* union of the tokens of the window, and changes no cell.
C35_MatchAccessors ==
    (iter.live /\ ~AtEnd) =>
        /\ Match(iter).begin = iter.m_j
        /\ Match(iter).size = iter.m_i + 1 /\ Match(iter).size >= 1
        /\ Match(iter).end = Match(iter).begin + Match(iter).size
        /\ Match(iter).end = iter.m_j + iter.m_i + 1 /\ Match(iter).end <= N
        /\ InTriangle(iter.m_i, iter.m_j)
        /\ Cell(<<iter.m_i, iter.m_j>>).m_type = "BIGRAMS"
        /\ Deref(Matcher, iter).ok
        /\ Deref(Matcher, iter).result = Cell(<<iter.m_i, iter.m_j>>).m_value
        /\ IsWindowUnion(Deref(Matcher, iter).result, iter.m_i, iter.m_j)
        /\ Deref(Matcher, iter).mx = m_mx

\* a match of two tokens or more that does not start at the first token,
\* in a matrix that still has empty cells
C35_Witness ==
    /\ iter.live /\ ~AtEnd
    /\ iter.m_i >= 1 /\ iter.m_j >= 1
    /\ Deref(Matcher, iter).result.m_size >= 5
    /\ \E c \in Cells : Cell(c).m_type = "NONE"

\* matcher new is matcher old extended by one token of profile p: a cell
\* holding p at the end of row 0, an empty cell at the end of every other
\* row, the new row included, its index in the strip set iff strip, and
\* every cell and every strip index there was, as it was
Extended(old, new, p, strip) ==
    LET n == Len(old.m_mx)
    IN  /\ Len(new.m_mx) = n + 1
        /\ \A r \in 1..(n + 1) :
              /\ Len(new.m_mx[r]) = (IF r <= n THEN Len(old.m_mx[r]) ELSE 0) + 1
              /\ new.m_mx[r][Len(new.m_mx[r])]
                    = (IF r = 1 THEN BigramsCell(p) ELSE NoneCell)
        /\ \A r \in 1..n : \A c \in 1..Len(old.m_mx[r]) :
              new.m_mx[r][c] = old.m_mx[r][c]
        /\ n \in new.m_strip_ixs <=> strip
        /\ \A k \in 0..(n - 1) : k \in new.m_strip_ixs <=> k \in old.m_strip_ixs
        /\ new.m_strip_ixs \subseteq 0..n

\* the matcher after the step
MatcherAfter == [m_mx |-> m_mx', m_strip_ixs |-> m_strip_ixs', m_cap |-> m_cap']

\* C36: append is a pure extension: push_back(P, strip) on a matcher of N
\* tokens adds a cell holding P at (0, N) and one empty cell at the end of
\* every other row, the new row N included, puts N into the strip set iff
\* strip, and leaves every cell there was (cached sizes and profiles
\* included) and the strip membership of every index below N as they were;
\* on every append made, and for every append that could be made.
C36_AppendExtends ==
    /\ [][Len(log') = Len(log) + 1 =>
             Extended(Matcher, MatcherAfter,
                      IF log'[Len(log')].op = "push_back" THEN log'[Len(log')].arg
                      ELSE Bigrams(log'[Len(log')].arg),
                      log'[Len(log')].strip)]_vars
    /\ [](\A p \in PushProfiles, strip \in BOOLEAN :
              Extended(Matcher, push_back(Matcher, p, strip), p, strip))

\* a matcher appended to by push_back with strip set, holding a profile
\* cached for a window of the tokens before, the cells of the new column
\* above row 0 empty
C36_Witness ==
    /\ N = MaxTokens
    /\ log[N].op = "push_back" /\ log[N].strip
    /\ (N - 1) \in m_strip_ixs /\ (N - 2) \notin m_strip_ixs
    /\ \E c \in Cells : c[1] >= 1 /\ c[1] + c[2] < N - 1 /\ Cell(c).m_type = "BIGRAMS"
    /\ \A c \in Cells : (c[1] >= 1 /\ c[1] + c[2] = N - 1) => Cell(c).m_type = "NONE"

\* C37: over every sequence of appends, reserve calls, begin(Q, theta) with
\* theta in (0, 1] and ++ on iterators not yet at the end, no assertion
\* fails: bigrams_size and bigrams are called with i < size() and
\* j < row.size() only, set_size is applied to an empty cell only,
\* set_bigrams to a cell without a profile only, size() is read from a
\* cell that is not empty only; in the calls the iterator has made, and in
\* those the next begin or ++ makes, the latter from any position the
\* iterator may have been left at when tokens were appended meanwhile.
C37_AssertionsHold ==
    /\ iter.ok
    /\ (iter.live /\ ~AtEnd) => Increment(Matcher, iter).it.ok
    /\ \A q \in Queries, theta \in Thetas :
          InUnitRange(theta) =>
              \A c \in Cells \cup {<<0, 0>>} :
                  Iterator(Matcher, q, theta, c[1], c[2]).it.ok

\* an iterator resting on a match of several tokens, in a matcher with
\* reserved capacity, some cells holding sizes, some profiles, some empty
C37_Witness ==
    /\ iter.live /\ ~AtEnd
    /\ iter.m_i >= 1
    /\ incs >= 1
    /\ N = MaxTokens
    /\ m_cap.mx > MaxTokens
    /\ \E c \in Cells : Cell(c).m_type = "SIZE"
    /\ \E c \in Cells : Cell(c).m_type = "NONE"
    /\ \E c \in Cells : c[1] >= 1 /\ Cell(c).m_type = "BIGRAMS"

\* the cell (i, j) of a matrix
At(mx, c) == mx[c[1] + 1][c[2] + 1]

\* two matrices of one shape that agree on every cell outside the set
SameOutside(old, new, cells) ==
    /\ Len(new) = Len(old)
    /\ \A k \in 1..Len(old) : Len(new[k]) = Len(old[k])
    /\ \A c \in Cells : c \notin cells => At(new, c) = At(old, c)

\* C39: a call bigrams_size(i, j) or bigrams(i, j) changes only cells of
\* the split tree rooted at (i, j), all of which lie in the triangle and
\* inside the window of tokens [j, j + i]; after bigrams(i, j) every cell
\* of the tree holds a profile; every cell outside the tree keeps its
\* state and its value.
C39_QueryFootprint ==
    \A c \in Cells :
        LET i == c[1]
            j == c[2]
            sized == bigrams_size(m_mx, i, j).mx
            full == bigrams(m_mx, i, j).mx
        IN  /\ Tree(i, j) \subseteq Cells
            /\ \A d \in Tree(i, j) : Window(d[1], d[2]) \subseteq Window(i, j)
            /\ SameOutside(m_mx, sized, Tree(i, j))
            /\ SameOutside(m_mx, full, Tree(i, j))
            /\ \A d \in Tree(i, j) : At(full, d).m_type = "BIGRAMS"

\* the top cell of three tokens is empty with an empty cell in its tree
\* and a cell outside its tree that already holds a size, and a cell of
\* row 1 is empty too: both calls have something to fill and something to
\* leave alone
C39_Witness ==
    /\ N = MaxTokens
    /\ Cell(<<N - 1, 0>>).m_type = "NONE"
    /\ \E d \in Tree(N - 1, 0) \ {<<N - 1, 0>>} : Cell(d).m_type = "NONE"
    /\ \E d \in Cells \ Tree(N - 1, 0) : Cell(d).m_type = "SIZE"
    /\ bigrams(m_mx, N - 1, 0).mx # m_mx
    /\ bigrams_size(m_mx, N - 1, 0).mx # m_mx
    /\ bigrams_size(m_mx, N - 1, 0).mx # bigrams(m_mx, N - 1, 0).mx

\* the matches a query reports when it runs alone on the tokens, from
\* begin to end with nothing cached beforehand
Alone(it) == Matches(Fresh(Matcher), it.m_bigrams, it.theta)

\* matches reported so far are the first of those reported alone, and all
\* of them once the end is reached
ReportsAsAlone(it, h) ==
    /\ Len(h) <= Len(Alone(it))
    /\ h = SubSeq(Alone(it), 1, Len(h))
    /\ IterEq(it, End(Matcher)) => Len(h) = Len(Alone(it))
    /\ ~IterEq(it, End(Matcher)) =>
          /\ Len(h) >= 1 /\ h[Len(h)] = Match(it)
          /\ Deref(Matcher, it).result = Deref(Fresh(Matcher), it).result

\* C38: two match iterators over one matcher, with the same or different
\* queries and thresholds, advanced by ++ in any interleaving with no
\* append in between, each report exactly the matches they report when
\* run alone: so far a prefix of them, at the end all of them.
C38_InterleavedIndependent ==
    /\ iter.live => ReportsAsAlone(iter, hist)
    /\ iter2.it.live => ReportsAsAlone(iter2.it, iter2.hist)

\* both iterators under way and advanced, on different cells, with
\* different queries; the second began while the first had matches left
\* and both have matches ahead
C38_Witness ==
    /\ iter.live /\ iter2.it.live
    /\ ~AtEnd /\ ~IterEq(iter2.it, End(Matcher))
    /\ incs >= 1 /\ Len(iter2.hist) >= 2
    /\ ~IterEq(iter, iter2.it)
    /\ iter.m_bigrams # iter2.it.m_bigrams
    /\ iter.theta # iter2.it.theta
    /\ Len(hist) < Len(Alone(iter))
    /\ Len(iter2.hist) < Len(Alone(iter2.it))
    /\ N = MaxTokens

====
